---------------------------- MODULE Spec2Model ----------------------------
(***************************************************************************)
(* Wallet manager: threshold alert evaluator (runThresholdAlerts), hourly  *)
(* snapshot pipeline (runSnapshotPipeline) and greedy rebalance planner    *)
(* (computeRebalancePlan), over a row store with the tables of             *)
(* database/schema.sql.                                                    *)
(*                                                                         *)
(* Each async function is a process whose steps are its await points; the  *)
(* store tables are sets of rows.  A store or network call whose result    *)
(* the code branches on (error / data) has both outcomes.                  *)
(***************************************************************************)
EXTENDS Integers, Sequences, FiniteSets, TLC

VARIABLES
    \* ---- store tables (database/schema.sql) ----
    userWallets,        \* user_wallets: wallet id -> row
    tokenTargets,       \* wallet_token_targets: set of rows
    walletSnapshots,    \* wallet_snapshots: set of rows
    snapshotBalances,   \* wallet_snapshot_balances: set of rows
    priceSnapshots,     \* token_price_snapshots: set of rows
    alertEvents,        \* wallet_alert_events: set of rows
    \* ---- environment ----
    webhook,            \* process.env.DISCORD_WEBHOOK_URL is set
    sinkLog,            \* calls made to the Discord webhook
    clock,              \* wall-clock time, in minutes
    \* ---- runThresholdAlerts invocations ----
    rta,
    \* ---- runSnapshotPipeline invocations ----
    rsp,
    lastResult,         \* the result the pipeline returned last
    cleanRuns,          \* history: (wallet, bucket) pairs snapshotted by a run without errors
    \* ---- computeRebalancePlan invocation ----
    crp,
    \* ---- getTokenUsdPrices invocation ----
    gtp,
    \* ---- PUT /api/wallets/[walletId]/targets requests ----
    put,
    \* ---- BatchSnapshotOrchestrator run ----
    orch,
    \* ---- POST manual-snapshot requests ----
    manual

storeVars == <<userWallets, tokenTargets, walletSnapshots, snapshotBalances, priceSnapshots>>
alertVars == <<alertEvents, webhook, sinkLog, rta>>
snapVars == <<clock, rsp, lastResult, cleanRuns>>
planVars == <<crp>>
svcVars == <<gtp, put, orch, manual>>
vars == <<storeVars, alertVars, snapVars, planVars, svcVars>>

(***************************************************************************)
(* Bounds and domains                                                      *)
(***************************************************************************)
MaxRuns == 2

Runs == 1..MaxRuns
Wallets == {"w1", "w2"}
WalletOrder == <<"w1", "w2">>
Units == {"lovelace", "BTC", "X", "Y"}
MinutesPerHour == 60
HalfHour == MinutesPerHour \div 2
FirstHour == MinutesPerHour
\* The instants at which the pipeline is called: two in the first hour,
\* one at the start of the next.
Times == {FirstHour, FirstHour + HalfHour, FirstHour + MinutesPerHour}
Buckets == {FirstHour, FirstHour + MinutesPerHour}

NullPrice == -1
NoBucket == 0
NoAccountInfo == -2
NonNumeric == -1
NoSnapshot == <<0, "none", 0>>
NoEvent == <<0, "none">>
LovelaceDecimals == 6
\* The planner's value grid: UnitsPerMicro grid units make 1e-6 USD, and a
\* grid unit of value at price 1 is QtyPerUnit units of 1e-8.
UnitsPerMicro == 4
QtyPerUnit == 25
BpsScale == 10000
NoPrice == 0
MaxValue == 4
MaxIters == 4

\* The id of the n-th wallet_snapshots row created for (wallet, bucket).
SnapId(n, w, b) == <<n, w, b>>

\* Parameters an invocation of runThresholdAlerts is called with.
WalletIdsParams == {{}, {"w1"}}
BucketParams == {NoBucket, FirstHour}

(***************************************************************************)
(* Generic helpers                                                         *)
(***************************************************************************)
Abs(x) == IF x < 0 THEN -x ELSE x

RECURSIVE Pow10(_)
Pow10(n) == IF n <= 0 THEN 1 ELSE 10 * Pow10(n - 1)

RECURSIVE SumOver(_, _)
SumOver(S, f) ==
    IF S = {} THEN 0
    ELSE LET x == CHOOSE y \in S : TRUE IN f[x] + SumOver(S \ {x}, f)

\* The sub-sequence of s whose elements satisfy membership in S (Array.filter).
RECURSIVE FilterSeq(_, _)
FilterSeq(s, S) ==
    IF s = <<>> THEN <<>>
    ELSE IF Head(s) \in S THEN <<Head(s)>> \o FilterSeq(Tail(s), S)
    ELSE FilterSeq(Tail(s), S)

(***************************************************************************)
(* Store queries used by runThresholdAlerts                                *)
(***************************************************************************)
\* user_wallets .eq("is_active", true) [.in("id", walletIds)]
ActiveWallets(walletIds) ==
    FilterSeq(WalletOrder,
              {w \in Wallets : /\ userWallets[w].is_active
                               /\ (walletIds = {} \/ w \in walletIds)})

\* wallet_token_targets .eq("wallet_id", w)
TargetRows(w) == {t \in tokenTargets : t.wallet_id = w}

TargetUnits(w) == {t.unit : t \in TargetRows(w)}

targetsMap(w) ==
    [u \in TargetUnits(w) |->
        (CHOOSE t \in TargetRows(w) : t.unit = u).target_pct_points]

\* wallet_snapshots for the wallet: the given bucket, else the latest one.
SnapshotFor(w, bucketIso) ==
    LET mine == {s \in walletSnapshots : s.wallet_id = w}
        pick == IF bucketIso # NoBucket
                THEN {s \in mine : s.snapshot_bucket = bucketIso}
                ELSE {s \in mine : \A o \in mine : o.snapshot_bucket <= s.snapshot_bucket}
    IN  IF pick = {} THEN NoSnapshot ELSE (CHOOSE s \in pick : TRUE).id

SnapshotRow(sid) == CHOOSE s \in walletSnapshots : s.id = sid

\* wallet_alert_events .eq("wallet_id", w).eq("snapshot_id", sid).limit(1)
ExistingEvents(w, sid) ==
    {e \in alertEvents : e.wallet_id = w /\ e.snapshot_id = sid}

\* applyDecimals: the human quantity, kept as an integer number of
\* 10^-LovelaceDecimals parts so that the division stays exact.
applyDecimals(quantityRaw, decimals) ==
    IF decimals <= 0 THEN quantityRaw * Pow10(LovelaceDecimals)
    ELSE quantityRaw * Pow10(LovelaceDecimals - decimals)

quantitiesHuman(sid, u) ==
    LET rows == {b \in snapshotBalances : b.snapshot_id = sid /\ b.unit = u}
    IN  IF rows = {} THEN 0
        ELSE LET b == CHOOSE r \in rows : TRUE
             IN  applyDecimals(b.quantity_raw, b.decimals)

\* token_price_snapshots of the bucket; NullPrice when no row or a null price.
priceUsd(bucket, u) ==
    LET rows == {p \in priceSnapshots : p.snapshot_bucket = bucket /\ p.unit = u}
    IN  IF rows = {} THEN NullPrice ELSE (CHOOSE r \in rows : TRUE).price_usd

\* valueUsdByUnit[unit] ?? 0 for a targeted unit
valueUsd(sid, bucket, u) ==
    IF priceUsd(bucket, u) # NullPrice
    THEN quantitiesHuman(sid, u) * priceUsd(bucket, u)
    ELSE 0

\* Mutation: the division is made whatever the total; <<0, 0>> stands for the
\* NaN that 0 / 0 gives.
currentPctMutant(w, sid, u) ==
    LET bucket == SnapshotRow(sid).snapshot_bucket
        tu == TargetUnits(w)
    IN  IF userWallets[w].threshold_basis = "holdings"
        THEN <<100 * quantitiesHuman(sid, u),
               SumOver(tu, [x \in tu |-> quantitiesHuman(sid, x)])>>
        ELSE <<100 * valueUsd(sid, bucket, u),
               SumOver(tu, [x \in tu |-> valueUsd(sid, bucket, x)])>>

\* currentPct[unit] as a fraction <<numerator, denominator>>, denominator > 0.
\* For the ada / btc basis both v and denom are divided by the same reference
\* price, so the quotient is vUsd / totalUsd whenever that price is truthy.
currentPct(w, sid, u) ==
    LET bucket == SnapshotRow(sid).snapshot_bucket
        tu == TargetUnits(w)
        basis == userWallets[w].threshold_basis
    IN  IF basis = "holdings"
        THEN LET totalQty == SumOver(tu, [x \in tu |-> quantitiesHuman(sid, x)])
             IN  IF totalQty > 0
                 THEN <<100 * quantitiesHuman(sid, u), totalQty>>
                 ELSE <<0, 1>>
        ELSE LET totalUsd == SumOver(tu, [x \in tu |-> valueUsd(sid, bucket, x)])
             IN  IF totalUsd > 0
                 THEN <<100 * valueUsd(sid, bucket, u), totalUsd>>
                 ELSE <<0, 1>>

\* Mutation: the comparison excludes equality.
DeviatesMutant(w, sid, u) ==
    LET c == currentPct(w, sid, u)
        threshold == userWallets[w].deviation_threshold_pct_points
    IN  Abs(c[1] - targetsMap(w)[u] * c[2]) > threshold * c[2]

\* Math.abs(currentPct - target) >= threshold
Deviates(w, sid, u) ==
    LET c == currentPct(w, sid, u)
        threshold == userWallets[w].deviation_threshold_pct_points
    IN  Abs(c[1] - targetsMap(w)[u] * c[2]) >= threshold * c[2]

deviations(w, sid) == {u \in TargetUnits(w) : Deviates(w, sid, u)}

(***************************************************************************)
(* runThresholdAlerts: one process per invocation, one step per await      *)
(***************************************************************************)
RtaIdle ==
    [pc |-> "idle", bucketIso |-> NoBucket, wallets |-> <<>>,
     k |-> 1, snapshot |-> NoSnapshot, evt |-> NoEvent, sendOk |-> FALSE,
     alertsSent |-> 0, result |-> <<0, 0>>]

wallet(p) == rta[p].wallets[rta[p].k]

\* `continue`: on to the next wallet of the for loop.
Continue(r) ==
    [r EXCEPT !.pc = "targets", !.k = @ + 1, !.snapshot = NoSnapshot,
              !.evt = NoEvent, !.sendOk = FALSE]

\* Lines 217-230: select the active wallets; an error or no wallet returns.
\* Invocations are numbered in the order they start.
SelectWallets(p) ==
    /\ rta[p].pc = "idle"
    /\ \A o \in Runs : o < p => rta[o].pc # "idle"
    /\ \E ids \in WalletIdsParams, b \in BucketParams, ok \in BOOLEAN :
         LET ws == ActiveWallets(ids)
         IN  rta' = [rta EXCEPT ![p] =
                 IF ~ok \/ ws = <<>>
                 THEN [@ EXCEPT !.pc = "done"]
                 ELSE [@ EXCEPT !.pc = "targets", !.bucketIso = b, !.wallets = ws]]
    /\ UNCHANGED <<storeVars, snapVars, planVars, svcVars, alertEvents, webhook, sinkLog>>

\* Lines 242-244: targets of the wallet; error or none -> continue.
SelectTargets(p) ==
    /\ rta[p].pc = "targets"
    /\ rta[p].k <= Len(rta[p].wallets)
    /\ \E ok \in BOOLEAN :
         rta' = [rta EXCEPT ![p] =
             IF ~ok \/ TargetRows(wallet(p)) = {}
             THEN Continue(@)
             ELSE [@ EXCEPT !.pc = "snapshot"]]
    /\ UNCHANGED <<storeVars, snapVars, planVars, svcVars, alertEvents, webhook, sinkLog>>

\* Lines 262-270: the snapshot to evaluate; error or none -> continue.
SelectSnapshot(p) ==
    /\ rta[p].pc = "snapshot"
    /\ \E ok \in BOOLEAN :
         LET sid == SnapshotFor(wallet(p), rta[p].bucketIso)
         IN  rta' = [rta EXCEPT ![p] =
                 IF ~ok \/ sid = NoSnapshot
                 THEN Continue(@)
                 ELSE [@ EXCEPT !.pc = "existing", !.snapshot = sid]]
    /\ UNCHANGED <<storeVars, snapVars, planVars, svcVars, alertEvents, webhook, sinkLog>>

\* Line 293: skip the wallet only when the lookup succeeded and found a row.
ExistingSkips(error, data) == ~error /\ data # {}

\* Lines 287-293: idempotency gate.
SelectExisting(p, outcomes) ==
    /\ rta[p].pc = "existing"
    /\ \E error \in outcomes :
         LET data == IF error THEN {} ELSE ExistingEvents(wallet(p), rta[p].snapshot)
         IN  /\ rta' = [rta EXCEPT ![p] =
                    IF ExistingSkips(error, data)
                    THEN Continue(@)
                    ELSE [@ EXCEPT !.pc = "evaluate"]]
    /\ UNCHANGED <<storeVars, snapVars, planVars, svcVars, alertEvents, webhook, sinkLog>>

\* Lines 301-396: balances and prices of the snapshot, current percentages,
\* deviations; a failed read or no deviation -> continue.
\* reads: the outcomes (ok or not) the two reads may have.
EvaluateDeviations(p, reads) ==
    /\ rta[p].pc = "evaluate"
    /\ \E ok \in reads :
         rta' = [rta EXCEPT ![p] =
             IF ~ok \/ deviations(wallet(p), rta[p].snapshot) = {}
             THEN Continue(@)
             ELSE [@ EXCEPT !.pc = "insert"]]
    /\ UNCHANGED <<storeVars, snapVars, planVars, svcVars, alertEvents, webhook, sinkLog>>

\* Line 471: deliver only when a webhook is configured (the insert succeeded).
AfterInsert(r, id) ==
    IF webhook THEN [r EXCEPT !.pc = "send", !.evt = id] ELSE Continue(r)

\* Mutation: delivery goes ahead although the row was not persisted.
AfterInsertErrorMutant(r) ==
    IF webhook THEN [r EXCEPT !.pc = "send"] ELSE Continue(r)

\* Line 466-469: a failed insert skips delivery.
AfterInsertError(r) == Continue(r)

\* Lines 455-469: persist the alert event row, then deliver.
InsertEvent(p) ==
    /\ rta[p].pc = "insert"
    /\ \E ok \in BOOLEAN :
         IF ok
         THEN LET id == <<p, wallet(p)>>
              IN  /\ alertEvents' = alertEvents \cup
                        {[id |-> id, wallet_id |-> wallet(p),
                          snapshot_id |-> rta[p].snapshot,
                          discord_sent |-> FALSE, discord_error |-> "null"]}
                  /\ rta' = [rta EXCEPT ![p] = AfterInsert(@, id)]
         ELSE /\ alertEvents' = alertEvents
              /\ rta' = [rta EXCEPT ![p] = AfterInsertError(@)]
    /\ UNCHANGED <<storeVars, snapVars, planVars, svcVars, webhook, sinkLog>>

\* Line 474: alertsSent++ after a delivery that did not throw.
CountSent(n, ok) == IF ok THEN n + 1 ELSE n

\* Lines 473-474, 490-501: POST to the webhook; a non-ok response throws.
sendDiscordWebhook(p) ==
    /\ rta[p].pc = "send"
    /\ \E ok \in BOOLEAN :
         /\ sinkLog' = sinkLog \cup
               {[run |-> p, wallet_id |-> wallet(p),
                 snapshot_id |-> rta[p].snapshot, evt |-> rta[p].evt, ok |-> ok]}
         /\ rta' = [rta EXCEPT ![p] =
               [@ EXCEPT !.pc = "update", !.sendOk = ok,
                         !.alertsSent = CountSent(@, ok)]]
    /\ UNCHANGED <<storeVars, snapVars, planVars, svcVars, alertEvents, webhook>>

\* Mutation: the row is marked sent whatever the delivery outcome.
DeliveryPatchMutant(e, ok) ==
    [e EXCEPT !.discord_sent = TRUE, !.discord_error = "null"]

\* The patch written back after delivery (lines 476 and 480).
DeliveryPatch(e, ok) ==
    IF ok THEN [e EXCEPT !.discord_sent = TRUE, !.discord_error = "null"]
    ELSE [e EXCEPT !.discord_sent = FALSE, !.discord_error = "Discord webhook failed"]

\* Lines 475-476, 478-480: record the outcome on the row with id = evtId.
UpdateEvent(p) ==
    /\ rta[p].pc = "update"
    /\ alertEvents' = {IF e.id = rta[p].evt THEN DeliveryPatch(e, rta[p].sendOk) ELSE e
                        : e \in alertEvents}
    /\ rta' = [rta EXCEPT ![p] = Continue(@)]
    /\ UNCHANGED <<storeVars, snapVars, planVars, svcVars, webhook, sinkLog>>

\* Line 485: the loop is over.
Return(p) ==
    /\ rta[p].pc = "targets"
    /\ rta[p].k > Len(rta[p].wallets)
    /\ rta' = [rta EXCEPT ![p] =
          [RtaIdle EXCEPT !.pc = "done",
                          !.result = <<Len(rta[p].wallets), rta[p].alertsSent>>]]
    /\ UNCHANGED <<storeVars, snapVars, planVars, svcVars, alertEvents, webhook, sinkLog>>

(***************************************************************************)
(* runSnapshotPipeline: one process per invocation, one step per await     *)
(***************************************************************************)
\* toSnapshotBucket: the instant truncated to the hour.
toSnapshotBucket(t) == t - (t % MinutesPerHour)

RspIdle ==
    [pc |-> "idle", wallets |-> <<>>, now |-> 0,
     accountInfo |-> [w \in Wallets |-> NoAccountInfo], accountAssets |-> {},
     toUpsert |-> <<>>, balanceRows |-> {}, priceRows |-> {}, errors |-> <<>>]

NoResult == [processed |-> 0, errors |-> <<>>, snapshotBucketIso |-> NoBucket]

\* return { processed, errors, snapshotBucketIso }
Result(r, processed, errors) ==
    [processed |-> processed, errors |-> errors, snapshotBucketIso |-> toSnapshotBucket(r.now)]

\* The invocation is over and its locals are gone.
RspDone == [RspIdle EXCEPT !.pc = "done"]

\* The pairs a returning run adds to the history of error-free runs.
CleanPairs(r, errors) ==
    IF errors = <<>>
    THEN {<<r.toUpsert[i], toSnapshotBucket(r.now)>> : i \in DOMAIN r.toUpsert}
    ELSE {}

Range(s) == {s[i] : i \in DOMAIN s}

\* The callers pass the target units of each wallet as its monitored units
\* and their union, with lovelace and BTC, as the units to price.
monitoredUnitsByWalletId(w) == TargetUnits(w)

unitsToPriceUsd(ws) == UNION {TargetUnits(w) : w \in Range(ws)}

\* Lines 186-195: the call happens at some time `now` not before the last
\* one; no wallet returns at once.
StartSnapshot(q, walletsParams, times) ==
    /\ rsp[q].pc = "idle"
    /\ \A o \in Runs : o < q => rsp[o].pc # "idle"
    /\ \E ws \in walletsParams, now \in times :
         /\ now >= clock
         /\ clock' = now
         /\ IF ws = <<>>
            THEN /\ rsp' = [rsp EXCEPT ![q] = RspDone]
                 /\ lastResult' = Result([now |-> now], 0, <<>>)
            ELSE /\ rsp' = [rsp EXCEPT ![q] = [@ EXCEPT !.pc = "fetch", !.wallets = ws, !.now = now]]
                 /\ lastResult' = NoResult
    /\ UNCHANGED <<storeVars, alertVars, planVars, svcVars, cleanRuns>>

\* Mutation: every wallet of the batch is taken to have account info.
WithAccountInfoMutant(ws, info) == ws

\* Lines 236-243: the wallets that have account info, in order.
WithAccountInfo(ws, info) ==
    FilterSeq(ws, {w \in Wallets : info[w] # NoAccountInfo})

RECURSIVE NoInfoErrors(_, _)
NoInfoErrors(ws, info) ==
    IF ws = <<>> THEN <<>>
    ELSE (IF info[Head(ws)] = NoAccountInfo
          THEN <<(<<"No account info found for wallet", Head(ws)>>)>>
          ELSE <<>>) \o NoInfoErrors(Tail(ws), info)

\* The two batched calls to the balance provider, and the message a call
\* that is not ok throws (lines 209 and 217).
KoiosCalls == {"account_info", "account_assets"}

KoiosError(call) == <<"Koios API error", call>>

\* Mutation: the run carries on to the price resolution.
AfterKoiosErrorMutant(r) == [r EXCEPT !.pc = "prices"]

\* Lines 221-224: the catch returns.
AfterKoiosError(r) == RspDone

\* Lines 200-245: both Koios calls in one await; a failure of either returns
\* processed = 0; so does a batch none of whose wallets has account info.
FetchBalances(q, infoChoices, assetChoices) ==
    /\ rsp[q].pc = "fetch"
    /\ \E failed \in KoiosCalls \cup {"none"}, info \in infoChoices, assets \in assetChoices :
         LET r == rsp[q]
             toUp == WithAccountInfo(r.wallets, info)
             errs == NoInfoErrors(r.wallets, info)
         IN  IF failed \in KoiosCalls
             THEN /\ rsp' = [rsp EXCEPT ![q] = AfterKoiosError(r)]
                  /\ lastResult' = Result(r, 0, <<KoiosError(failed)>>)
             ELSE IF toUp = <<>>
             THEN /\ rsp' = [rsp EXCEPT ![q] = RspDone]
                  /\ lastResult' = Result(r, 0, errs)
             ELSE /\ rsp' = [rsp EXCEPT ![q] =
                        [r EXCEPT !.pc = "upsertSnapshots", !.accountInfo = info,
                                  !.accountAssets = {a \in assets : a.wallet_id \in Range(toUp)},
                                  !.toUpsert = toUp, !.errors = errs]]
                  /\ lastResult' = lastResult
    /\ UNCHANGED <<storeVars, alertVars, planVars, svcVars, clock, cleanRuns>>

\* Mutation: the upsert names no conflict key, every row is inserted anew.
SnapshotConflictMutant(r, w, b) == FALSE

\* onConflict: "wallet_id,snapshot_bucket" (UNIQUE(wallet_id, snapshot_bucket)).
SnapshotConflict(r, w, b) == r.wallet_id = w /\ r.snapshot_bucket = b

\* wallet_snapshots.upsert(rows, ignoreDuplicates: false): one statement.
UpsertSnapshotRows(table, ws, at, b) ==
    {IF \E w \in ws : SnapshotConflict(r, w, b) THEN [r EXCEPT !.snapshot_at = at] ELSE r
        : r \in table}
    \cup {[id |-> SnapId(1 + Cardinality({r \in table : r.wallet_id = w /\ r.snapshot_bucket = b}), w, b),
           wallet_id |-> w, snapshot_bucket |-> b, snapshot_at |-> at]
            : w \in {x \in ws : ~\E r \in table : SnapshotConflict(r, x, b)}}

\* Lines 259-266: upsert one snapshot row per wallet that has account info.
UpsertSnapshots(q) ==
    /\ rsp[q].pc = "upsertSnapshots"
    /\ \E ok \in BOOLEAN :
         LET r == rsp[q] IN
         IF ok
         THEN /\ walletSnapshots' = UpsertSnapshotRows(walletSnapshots, Range(r.toUpsert),
                                                       r.now, toSnapshotBucket(r.now))
              /\ rsp' = [rsp EXCEPT ![q] = [r EXCEPT !.pc = "fetchIds"]]
              /\ lastResult' = lastResult
         ELSE /\ walletSnapshots' = walletSnapshots
              /\ rsp' = [rsp EXCEPT ![q] = RspDone]
              /\ lastResult' = Result(r, 0,
                                      Append(r.errors, <<"Failed to save snapshots to database", "">>))
    /\ UNCHANGED <<userWallets, tokenTargets, snapshotBalances, priceSnapshots, alertVars, planVars, svcVars,
                   clock, cleanRuns>>

\* parseInt(total_balance, 10) || 0
ParseBalance(totalBalance) == IF totalBalance = NonNumeric THEN 0 ELSE totalBalance

\* Mutation: every asset the wallet holds is kept.
WalletBalanceRowsMutant(w, sid, info, assets) ==
    {[snapshot_id |-> sid, unit |-> "lovelace",
      quantity_raw |-> ParseBalance(info[w]), decimals |-> LovelaceDecimals]}
    \cup {[snapshot_id |-> sid, unit |-> a.unit, quantity_raw |-> a.quantity, decimals |-> a.decimals]
            : a \in {x \in assets : x.wallet_id = w /\ x.unit # "lovelace"}}

\* Lines 284-317: the balance rows of one wallet: lovelace, then the assets
\* returned for it whose unit is monitored.
WalletBalanceRows(w, sid, info, assets) ==
    {[snapshot_id |-> sid, unit |-> "lovelace",
      quantity_raw |-> ParseBalance(info[w]), decimals |-> LovelaceDecimals]}
    \cup {[snapshot_id |-> sid, unit |-> a.unit, quantity_raw |-> a.quantity, decimals |-> a.decimals]
            : a \in {x \in assets : /\ x.wallet_id = w
                                    /\ x.unit # "lovelace"
                                    /\ x.unit \in monitoredUnitsByWalletId(w) \cup {"lovelace"}}}

\* Lines 268-317: read back the snapshot ids of the bucket and build the
\* balance rows of every wallet whose snapshot row was found.
FetchSnapshotIds(q) ==
    /\ rsp[q].pc = "fetchIds"
    /\ \E ok \in BOOLEAN :
         LET r == rsp[q]
             b == toSnapshotBucket(r.now)
             found == {s \in walletSnapshots :
                          s.wallet_id \in Range(r.toUpsert) /\ s.snapshot_bucket = b}
             rows == UNION {WalletBalanceRows(s.wallet_id, s.id, r.accountInfo, r.accountAssets)
                              : s \in {x \in found : r.accountInfo[x.wallet_id] # NoAccountInfo}}
         IN  IF ok
             THEN /\ rsp' = [rsp EXCEPT ![q] =
                        IF rows # {}
                        THEN [r EXCEPT !.pc = "upsertBalances", !.balanceRows = rows]
                        ELSE [r EXCEPT !.pc = "prices",
                                       !.accountInfo = RspIdle.accountInfo,
                                       !.accountAssets = {}]]
                  /\ lastResult' = lastResult
             ELSE /\ rsp' = [rsp EXCEPT ![q] = RspDone]
                  /\ lastResult' = Result(r, Len(r.toUpsert),
                        Append(r.errors, <<"Failed to fetch saved snapshots from database", "">>))
    /\ UNCHANGED <<storeVars, alertVars, planVars, svcVars, clock, cleanRuns>>

\* onConflict: "snapshot_id,unit" (UNIQUE(snapshot_id, unit)): a conflicting
\* row takes the new quantity and decimals; no row is removed.
UpsertBalanceRows(table, rows) ==
    {IF \E n \in rows : n.snapshot_id = r.snapshot_id /\ n.unit = r.unit
     THEN LET n == CHOOSE m \in rows : m.snapshot_id = r.snapshot_id /\ m.unit = r.unit
          IN  [r EXCEPT !.quantity_raw = n.quantity_raw, !.decimals = n.decimals]
     ELSE r : r \in table}
    \cup {[id |-> <<n.snapshot_id, n.unit>>, snapshot_id |-> n.snapshot_id, unit |-> n.unit,
           quantity_raw |-> n.quantity_raw, decimals |-> n.decimals]
            : n \in {m \in rows : ~\E r \in table :
                                      r.snapshot_id = m.snapshot_id /\ r.unit = m.unit}}

\* The provider's answers are not read after the balance rows are built.
Forget(r) == [r EXCEPT !.accountInfo = RspIdle.accountInfo, !.accountAssets = {}]

\* Mutation: a failed balances upsert ends the run.
AfterBalancesErrorMutant(r) == RspDone

\* Line 332: the failure is pushed to errors and the run goes on.
AfterBalancesError(r) ==
    [Forget(r) EXCEPT !.pc = "prices",
                      !.errors = Append(@, <<"Failed to save wallet snapshot balances to database", "">>)]

\* Lines 319-333: upsert the balance rows; a failure is reported, not fatal.
UpsertBalances(q) ==
    /\ rsp[q].pc = "upsertBalances"
    /\ \E ok \in BOOLEAN :
         LET r == rsp[q] IN
         IF ok
         THEN /\ snapshotBalances' = UpsertBalanceRows(snapshotBalances, r.balanceRows)
              /\ rsp' = [rsp EXCEPT ![q] = [Forget(r) EXCEPT !.pc = "prices"]]
         ELSE /\ snapshotBalances' = snapshotBalances
              /\ rsp' = [rsp EXCEPT ![q] = AfterBalancesError(r)]
    /\ UNCHANGED <<userWallets, tokenTargets, walletSnapshots, priceSnapshots, alertVars, planVars, svcVars,
                   clock, lastResult, cleanRuns>>

\* getTokenUsdPrices: one result per distinct requested unit.  lovelace and
\* BTC share the base-rate fetch; every other unit is priced or not.
TokenUsdPriceResults(units, tokenPrices) ==
    {[u \in units |-> IF u \in {"lovelace", "BTC"}
                      THEN (IF base THEN 1 ELSE NullPrice)
                      ELSE tp[u]] :
        base \in BOOLEAN, tp \in [units \ {"lovelace", "BTC"} -> tokenPrices]}

\* Lines 335-343: resolve the prices of lovelace, BTC and the units to price.
GetTokenUsdPrices(q, tokenPrices) ==
    /\ rsp[q].pc = "prices"
    /\ LET r == rsp[q]
           unitsToPrice == {"lovelace", "BTC"} \cup unitsToPriceUsd(r.wallets)
       IN  \E prices \in TokenUsdPriceResults(unitsToPrice, tokenPrices) :
             rsp' = [rsp EXCEPT ![q] =
                 [r EXCEPT !.pc = "upsertPrices",
                           !.priceRows = {[snapshot_bucket |-> toSnapshotBucket(r.now),
                                           unit |-> u, price_usd |-> prices[u]]
                                            : u \in unitsToPrice}]]
    /\ UNCHANGED <<storeVars, alertVars, planVars, svcVars, clock, lastResult, cleanRuns>>

\* Mutation: the price upsert conflicts on nothing, every row is inserted.
PriceConflictMutant(r, n) == FALSE

\* onConflict: "snapshot_bucket,unit" (UNIQUE(snapshot_bucket, unit)).
PriceConflict(r, n) == r.snapshot_bucket = n.snapshot_bucket /\ r.unit = n.unit

UpsertPriceRows(table, rows) ==
    {IF \E n \in rows : PriceConflict(r, n)
     THEN [r EXCEPT !.price_usd = (CHOOSE m \in rows : PriceConflict(r, m)).price_usd]
     ELSE r : r \in table}
    \cup {[id |-> <<1 + Cardinality({r \in table : r.snapshot_bucket = n.snapshot_bucket
                                                      /\ r.unit = n.unit}),
                    n.snapshot_bucket, n.unit>>,
           snapshot_bucket |-> n.snapshot_bucket,
           unit |-> n.unit, price_usd |-> n.price_usd]
            : n \in {m \in rows : ~\E r \in table : PriceConflict(r, m)}}

\* Lines 345-361: upsert the price rows and return.
UpsertPrices(q) ==
    /\ rsp[q].pc = "upsertPrices"
    /\ \E ok \in BOOLEAN :
         LET r == rsp[q] IN
         IF ok
         THEN /\ priceSnapshots' = UpsertPriceRows(priceSnapshots, r.priceRows)
              /\ lastResult' = Result(r, Len(r.toUpsert), r.errors)
              /\ cleanRuns' = cleanRuns \cup CleanPairs(r, r.errors)
         ELSE /\ priceSnapshots' = priceSnapshots
              /\ lastResult' = Result(r, Len(r.toUpsert),
                    Append(r.errors, <<"Failed to save token price snapshots to database", "">>))
              /\ cleanRuns' = cleanRuns
    /\ rsp' = [rsp EXCEPT ![q] = RspDone]
    /\ UNCHANGED <<userWallets, tokenTargets, walletSnapshots, snapshotBalances, alertVars, planVars, svcVars, clock>>

(***************************************************************************)
(* computeRebalancePlan: a pure function, one step per loop iteration      *)
(***************************************************************************)
\* A JavaScript number: a finite value on the value grid, or one of the
\* three non-finite values.  One grid unit is 1 / UnitsPerMicro of 1e-6 USD.
Fin(n) == [k |-> "fin", v |-> n]
PosInf == [k |-> "+inf", v |-> 0]
NegInf == [k |-> "-inf", v |-> 0]
NaN == [k |-> "nan", v |-> 0]

IsFinite(x) == x.k = "fin"
IsNaN(x) == x.k = "nan"

Neg(x) ==
    CASE x.k = "fin" -> Fin(-x.v)
      [] x.k = "+inf" -> NegInf
      [] x.k = "-inf" -> PosInf
      [] OTHER -> NaN

\* x + y: infinity absorbs finite values, opposite infinities give NaN.
Plus(x, y) ==
    IF IsNaN(x) \/ IsNaN(y) THEN NaN
    ELSE IF IsFinite(x) /\ IsFinite(y) THEN Fin(x.v + y.v)
    ELSE IF IsFinite(x) THEN y
    ELSE IF IsFinite(y) THEN x
    ELSE IF x.k = y.k THEN x ELSE NaN

Minus(x, y) == Plus(x, Neg(y))

Ord(x) == IF x.k = "+inf" THEN 1 ELSE IF x.k = "-inf" THEN -1 ELSE 0

\* x < y and x <= y: every comparison with NaN is false.
Less(x, y) ==
    /\ ~IsNaN(x) /\ ~IsNaN(y)
    /\ IF IsFinite(x) /\ IsFinite(y) THEN x.v < y.v ELSE Ord(x) < Ord(y)

LessEq(x, y) == ~IsNaN(x) /\ ~IsNaN(y) /\ ~Less(y, x)

\* Math.min: NaN if either argument is NaN.
MathMin(x, y) ==
    IF IsNaN(x) \/ IsNaN(y) THEN NaN ELSE IF Less(y, x) THEN y ELSE x

RECURSIVE ExtSum(_)
ExtSum(s) == IF s = <<>> THEN Fin(0) ELSE Plus(Head(s), ExtSum(Tail(s)))

\* round(n, 6) = Math.round(n * 1e6) / 1e6: to the nearest multiple of
\* 1e-6, halves upwards; non-finite values are returned as they are.
round6(x) ==
    IF IsFinite(x)
    THEN Fin(UnitsPerMicro * ((2 * x.v + UnitsPerMicro) \div (2 * UnitsPerMicro)))
    ELSE x

\* round(value / price * (1 - fee), 8), in units of 1e-8: a grid unit is
\* QtyPerUnit of them.
roundQty(value, price, keptBps) ==
    IF price = 0 THEN (IF IsFinite(value) /\ value.v = 0 THEN NaN ELSE value)
    ELSE IF IsFinite(value)
    THEN Fin((2 * value.v * QtyPerUnit * keptBps + BpsScale * price)
                \div (2 * BpsScale * price))
    ELSE value

PlanUnits == <<"A", "B", "C">>
PlanUnitSet == {PlanUnits[n] : n \in DOMAIN PlanUnits}
UnitIndex(u) == CHOOSE n \in DOMAIN PlanUnits : PlanUnits[n] = u

\* Line 103: desiredUsd = (targetPct / 100) * totalValueUsd.
desiredUsd(p, u) == Fin((p.targetsPctPoints[u] * p.totalValueUsd.v) \div 100)

\* Line 104: deltaUsd = currentUsd - desiredUsd; positive is overweight.
deltaUsd(p, u) == Minus(p.currentValuesUsd[u], desiredUsd(p, u))

\* d.deltaUsd > 1e-12 and d.deltaUsd < -1e-12.  1e-12 is below the grid
\* resolution, so on grid values the tests are those against zero.
AboveEpsilon(x) == Less(Fin(0), x)
BelowMinusEpsilon(x) == Less(x, Fin(0))

\* Array.sort is stable: the entry that comes first is one no other entry
\* precedes, ties resolved by the order of allUnits.
RECURSIVE SortUnits(_, _, _)
SortUnits(S, p, descending) ==
    IF S = {} THEN <<>>
    ELSE LET Precedes(a, b) ==
                 \/ IF descending THEN Less(deltaUsd(p, b), deltaUsd(p, a))
                                  ELSE Less(deltaUsd(p, a), deltaUsd(p, b))
                 \/ deltaUsd(p, a) = deltaUsd(p, b) /\ UnitIndex(a) < UnitIndex(b)
             first == CHOOSE a \in S : \A b \in S \ {a} : ~Precedes(b, a)
         IN  <<[unit |-> first, deltaUsd |-> deltaUsd(p, first)]>>
                 \o SortUnits(S \ {first}, p, descending)

\* Lines 107-112.
overweight(p) == SortUnits({u \in PlanUnitSet : AboveEpsilon(deltaUsd(p, u))}, p, TRUE)
underweight(p) == SortUnits({u \in PlanUnitSet : BelowMinusEpsilon(deltaUsd(p, u))}, p, FALSE)

\* x * 100, for the percentages.
Times100(x) == IF IsFinite(x) THEN Fin(100 * x.v) ELSE x

\* Lines 87-97: currentPct = currentUsd / totalValueUsd * 100 and
\* diffPctPoints = currentPct - targetPct, as fractions <<numerator,
\* denominator>> over totalValueUsd.
allocations(p) ==
    [u \in PlanUnitSet |->
        [targetPct |-> p.targetsPctPoints[u],
         currentPct |-> <<Times100(p.currentValuesUsd[u]), p.totalValueUsd>>,
         diffPctPoints |-> <<Times100(deltaUsd(p, u)), p.totalValueUsd>>]]

\* Mutation: the fee is not clamped at zero.
keptBpsMutant(p) == BpsScale - p.swapFeeBps

\* Line 114: the share of the value kept after the fee, in basis points.
keptBps(p) == BpsScale - (IF p.swapFeeBps > 0 THEN p.swapFeeBps ELSE 0)

NoParams ==
    [totalValueUsd |-> Fin(0), currentValuesUsd |-> [u \in PlanUnitSet |-> Fin(0)],
     targetsPctPoints |-> [u \in PlanUnitSet |-> 0],
     prices |-> [u \in PlanUnitSet |-> NoPrice], swapFeeBps |-> 0]

CrpIdle ==
    [pc |-> "idle", params |-> NoParams, overweight |-> <<>>, underweight |-> <<>>,
     i |-> 0, j |-> 0, broke |-> FALSE, iters |-> 0,
     allocations |-> <<>>, suggestions |-> <<>>, notes |-> <<>>]

\* Mutation: the guard tests finiteness only.
TotalIsUsableMutant(total) == IsFinite(total)

\* Lines 79-81: the guard on totalValueUsd.
TotalIsUsable(total) == IsFinite(total) /\ ~LessEq(total, Fin(0))

\* Lines 76-115: the guard, the allocations, the deltas and the two lists.
Entered(c) ==
    LET p == c.params IN
    IF ~TotalIsUsable(p.totalValueUsd)
    THEN [c EXCEPT !.pc = "returned",
                   !.notes = <<(<<"Portfolio total value is zero; cannot rebalance.", {}>>)>>]
    ELSE [c EXCEPT !.pc = "loop",
                   !.allocations = allocations(p),
                   !.overweight = overweight(p),
                   !.underweight = underweight(p)]

EnterPlan ==
    /\ crp.pc = "call"
    /\ crp' = Entered(crp)
    /\ UNCHANGED <<storeVars, alertVars, snapVars, svcVars>>

\* Mutation: the move takes the whole shortfall of the underweight entry.
MoveUsdMutant(from, to) == Neg(to.deltaUsd)

\* Line 123: moveUsd = Math.min(from.deltaUsd, -to.deltaUsd).
MoveUsd(from, to) == MathMin(from.deltaUsd, Neg(to.deltaUsd))

\* Mutation: the overweight pointer advances after every suggestion.
FromIsSettledMutant(x) == TRUE

\* Line 156: from.deltaUsd <= 1e-12.
FromIsSettled(x) == LessEq(x, Fin(0))

\* Line 157: to.deltaUsd >= -1e-12.
ToIsSettled(x) == LessEq(Fin(0), x)

\* Mutation: every unit passes for priced.
MissingPriceMutant(p, u) == FALSE

\* !priceUsd: undefined, zero and NaN are all "missing".
MissingPrice(p, u) == p.prices[u] = NoPrice

\* while (i < overweight.length && j < underweight.length)
LoopContinues(c) ==
    ~c.broke /\ c.i < Len(c.overweight) /\ c.j < Len(c.underweight)

\* Lines 117-158: the state after one iteration of the two-pointer loop.
Iterate(c) ==
    LET p == c.params
        from == c.overweight[c.i + 1]
        to == c.underweight[c.j + 1]
        moveUsd == MoveUsd(from, to)
        fromLeft == Minus(from.deltaUsd, moveUsd)
        toLeft == Plus(to.deltaUsd, moveUsd)
        missing == {u \in {from.unit, to.unit} : MissingPrice(p, u)}
    IN  IF LessEq(moveUsd, Fin(0))
        THEN [c EXCEPT !.broke = TRUE, !.iters = @ + 1]
        ELSE IF missing # {}
        THEN [c EXCEPT
                 !.notes = Append(@, <<"Missing USD price", missing>>),
                 !.i = IF MissingPrice(p, from.unit) THEN @ + 1 ELSE @,
                 !.j = IF MissingPrice(p, to.unit) THEN @ + 1 ELSE @,
                 !.iters = @ + 1]
        ELSE [c EXCEPT
                 !.suggestions = Append(@,
                     [fromUnit |-> from.unit, toUnit |-> to.unit,
                      fromQtyHuman |-> roundQty(moveUsd, p.prices[from.unit], BpsScale),
                      toQtyHuman |-> roundQty(moveUsd, p.prices[to.unit], keptBps(p)),
                      tradeValueUsd |-> round6(moveUsd)]),
                 !.overweight[c.i + 1].deltaUsd = fromLeft,
                 !.underweight[c.j + 1].deltaUsd = toLeft,
                 !.i = IF FromIsSettled(fromLeft) THEN @ + 1 ELSE @,
                 !.j = IF ToIsSettled(toLeft) THEN @ + 1 ELSE @,
                 !.iters = @ + 1]

LoopIteration ==
    /\ crp.pc = "loop"
    /\ LoopContinues(crp)
    /\ crp.iters < MaxIters
    /\ crp' = Iterate(crp)
    /\ UNCHANGED <<storeVars, alertVars, snapVars, svcVars>>

\* Lines 160-164: the loop is left; a plan without suggestions gets a note.
Finished(c) ==
    [c EXCEPT !.pc = "returned",
              !.notes = IF c.suggestions = <<>>
                        THEN Append(@, <<"No actionable swap suggestions", {}>>)
                        ELSE @]

ReturnPlan ==
    /\ crp.pc = "loop"
    /\ ~LoopContinues(crp)
    /\ crp' = Finished(crp)
    /\ UNCHANGED <<storeVars, alertVars, snapVars, svcVars>>

\* The whole function: the plan returned for the parameters p (the loop cut
\* at MaxIters iterations).
RECURSIVE RunLoop(_)
RunLoop(c) ==
    IF LoopContinues(c) /\ c.iters < MaxIters THEN RunLoop(Iterate(c)) ELSE c

computeRebalancePlan(p) ==
    LET c == Entered([CrpIdle EXCEPT !.pc = "call", !.params = p])
    IN  IF c.pc = "returned" THEN c ELSE Finished(RunLoop(c))

(***************************************************************************)
(* getTokenUsdPrices: the price resolver, one step per await               *)
(***************************************************************************)
\* The pairs token definitions name, the keys the ticker source may answer
\* with, and which key includes which pair or hint (String.includes on the
\* upper-cased strings, lines 266 and 270).
KrakenPairs == {"P1USD", "P2USD"}
KrakenKeys == {"XP1USD", "XP2USD", "OTHER"}
KeyOrder == <<"XP1USD", "XP2USD", "OTHER">>
Includes(key, needle) == <<key, needle>> \in {<<"XP1USD", "P1USD">>, <<"XP2USD", "P2USD">>}

\* A row of the tokens table.
TokenDef(u, active, source, pair, hint, id, price) ==
    [unit |-> u, is_active |-> active, pricing_source |-> source,
     kraken_pair_query |-> pair, kraken_result_key_hint |-> hint,
     coingecko_id |-> id, manual_price_usd |-> price]

NoRates == [adaUsd |-> NullPrice, btcUsd |-> NullPrice]

GtpIdle ==
    [pc |-> "idle", requested |-> <<>>, units |-> <<>>, baseCalls |-> <<>>, krakenRates |-> NoRates,
     tokens |-> {}, failed |-> {}, krakenRaw |-> <<>>, cgRaw |-> <<>>, results |-> <<>>]

\* Every service that is not running.

\* Line 282: Array.from(new Set(units.filter(Boolean))): the non-empty
\* units, each once, in the order of their first occurrence.
RECURSIVE DistinctUnits(_, _)
DistinctUnits(requested, seen) ==
    IF requested = <<>> THEN <<>>
    ELSE IF Head(requested) = "" \/ Head(requested) \in seen
    THEN DistinctUnits(Tail(requested), seen)
    ELSE <<Head(requested)>> \o DistinctUnits(Tail(requested), seen \cup {Head(requested)})

\* Line 288: the base rates are fetched when lovelace or BTC is requested.
WantsBase(units) == "lovelace" \in Range(units) \/ "BTC" \in Range(units)

\* Lines 282-288: no unit returns at once.
EnterPrices ==
    /\ gtp.pc = "call"
    /\ LET units == DistinctUnits(gtp.requested, {})
       IN  gtp' = IF units = <<>> THEN [gtp EXCEPT !.pc = "returned"]
                  ELSE [gtp EXCEPT !.units = units,
                                   !.pc = IF WantsBase(units) THEN "base" ELSE "tokens"]
    /\ UNCHANGED <<storeVars, alertVars, snapVars, planVars, put, orch, manual>>

\* Lines 287-294 with getBaseUsdRates line 214: the ticker source is asked
\* first; its answer ends the fetch, its failure falls through.
FetchKrakenRates ==
    /\ gtp.pc = "base"
    /\ \E ok \in BOOLEAN :
         gtp' = IF ok
                THEN [gtp EXCEPT !.pc = "tokens", !.baseCalls = Append(@, "kraken"),
                                 !.krakenRates = [adaUsd |-> 1, btcUsd |-> 2]]
                ELSE [gtp EXCEPT !.pc = "baseFallback", !.baseCalls = Append(@, "kraken")]
    /\ UNCHANGED <<storeVars, alertVars, snapVars, planVars, put, orch, manual>>

\* getBaseUsdRates lines 219-225: the aggregator source as fallback; its
\* failure is caught at line 291 and leaves krakenRates null.
FetchCoinGeckoRates ==
    /\ gtp.pc = "baseFallback"
    /\ \E ok \in BOOLEAN :
         gtp' = [gtp EXCEPT !.pc = "tokens", !.baseCalls = Append(@, "coingecko"),
                            !.krakenRates = IF ok THEN [adaUsd |-> 1, btcUsd |-> 2] ELSE NoRates]
    /\ UNCHANGED <<storeVars, alertVars, snapVars, planVars, put, orch, manual>>

\* One result of the returned array.
PriceResult(u, price, source, error) ==
    [unit |-> u, priceUsd |-> price, source |-> source, error |-> error]

\* Lines 308-316: a failed lookup answers null for every unit.
LookupFailed(units) ==
    [n \in DOMAIN units |-> PriceResult(units[n], NullPrice, "null", "Failed to query tokens table")]

\* Lines 302-323: read the definitions of the requested units.
QueryTokens(tables) ==
    /\ gtp.pc = "tokens"
    /\ \E error \in BOOLEAN, rows \in tables :
         gtp' = IF error
                THEN [gtp EXCEPT !.pc = "returned", !.results = LookupFailed(gtp.units)]
                ELSE [gtp EXCEPT !.pc = "krakenPairs",
                                 !.tokens = {d \in rows : d.unit \in Range(gtp.units)}]
    /\ UNCHANGED <<storeVars, alertVars, snapVars, planVars, put, orch, manual>>

\* Line 318 and 321-323.
defs(g) == {d \in g.tokens : d.is_active}
krakenDefs(g) == {d \in defs(g) : d.pricing_source = "kraken" /\ d.kraken_pair_query # ""}
cgDefs(g) == {d \in defs(g) : d.pricing_source = "coingecko" /\ d.coingecko_id # ""}

\* What the ticker source may answer to a query for pairs: any set of
\* series, each key with its own price.
KeyPrice(k) == CHOOSE n \in DOMAIN KeyOrder : KeyOrder[n] = k

KrakenAnswers == {[k \in K |-> KeyPrice(k)] : K \in SUBSET KrakenKeys}

\* Mutation: the failure of a source call leaves the function.
AfterSourceErrorMutant(g, source, next) == [g EXCEPT !.pc = "threw"]

\* Lines 327-336: a failed source call is caught and leaves its map empty.
AfterSourceError(g, source, next) ==
    [g EXCEPT !.pc = next, !.failed = @ \cup {source}]

\* Lines 228-243 and 327-331: one ticker query for all pairs; none, no call.
FetchKrakenPairsUsd ==
    /\ gtp.pc = "krakenPairs"
    /\ IF krakenDefs(gtp) = {}
       THEN gtp' = [gtp EXCEPT !.pc = "coingecko"]
       ELSE \E ok \in BOOLEAN, raw \in KrakenAnswers :
              gtp' = IF ok THEN [gtp EXCEPT !.pc = "coingecko", !.krakenRaw = raw]
                     ELSE AfterSourceError(gtp, "kraken", "coingecko")
    /\ UNCHANGED <<storeVars, alertVars, snapVars, planVars, put, orch, manual>>

\* What the aggregator may answer for the ids asked: a price for some.
CoinGeckoAnswers(ids) == {[i \in I |-> 4] : I \in SUBSET ids}

\* Mutation: hint and pair are not tried, a lone series is taken.
pickKrakenResultKeyMutant(result, hint, pair) ==
    IF Cardinality(DOMAIN result) = 1 THEN CHOOSE k \in DOMAIN result : TRUE ELSE ""

\* Lines 264-276: the key matching the hint, else the pair, else the only
\* key; "" for null.
pickKrakenResultKey(result, hint, pair) ==
    LET Find(needle) ==
            LET hits == {n \in DOMAIN KeyOrder :
                            KeyOrder[n] \in DOMAIN result /\ Includes(KeyOrder[n], needle)}
            IN  IF hits = {} THEN ""
                ELSE KeyOrder[CHOOSE n \in hits : \A m \in hits : n <= m]
    IN  IF hint # "" /\ Find(hint) # "" THEN Find(hint)
        ELSE IF pair # "" /\ Find(pair) # "" THEN Find(pair)
        ELSE IF Cardinality(DOMAIN result) = 1 THEN CHOOSE k \in DOMAIN result : TRUE
        ELSE ""

\* Lines 339-396: the result of one unit.
ResultOf(g, u) ==
    LET mine == {d \in defs(g) : d.unit = u}
        def == CHOOSE d \in mine : TRUE
        rated == g.krakenRates # NoRates
    IN  IF u = "lovelace"
        THEN PriceResult(u, g.krakenRates.adaUsd, IF rated THEN "kraken:ADAUSD" ELSE "null",
                         IF rated THEN "" ELSE "Failed to fetch ADAUSD from Kraken")
        ELSE IF u = "BTC"
        THEN PriceResult(u, g.krakenRates.btcUsd, IF rated THEN "kraken:BTCUSD" ELSE "null",
                         IF rated THEN "" ELSE "Failed to fetch BTCUSD from Kraken")
        ELSE IF mine = {}
        THEN PriceResult(u, NullPrice, "null", "No token definition")
        ELSE IF def.pricing_source = "manual"
        THEN PriceResult(u, def.manual_price_usd, "manual", "")
        ELSE IF def.pricing_source = "coingecko"
        THEN LET id == def.coingecko_id
                 found == id # "" /\ id \in DOMAIN g.cgRaw
             IN  PriceResult(u, IF found THEN g.cgRaw[id] ELSE NullPrice, "coingecko",
                             IF found THEN "" ELSE "Price not found")
        ELSE IF def.pricing_source = "kraken"
        THEN LET key == pickKrakenResultKey(g.krakenRaw, def.kraken_result_key_hint,
                                            def.kraken_pair_query)
             IN  PriceResult(u, IF key # "" THEN g.krakenRaw[key] ELSE NullPrice, "kraken",
                             IF key # "" THEN "" ELSE "Price not found")
        ELSE PriceResult(u, NullPrice, "null", "Unsupported pricing_source")

\* Lines 245-262, 332-336 and 338-398: one aggregator query for all ids,
\* then the results, one per requested unit, in the order requested.
FetchCoinGeckoUsd ==
    /\ gtp.pc = "coingecko"
    /\ LET ids == {d.coingecko_id : d \in cgDefs(gtp)}
           Built(g) == [g EXCEPT !.pc = "returned",
                                 !.results = [n \in DOMAIN g.units |-> ResultOf(g, g.units[n])]]
       IN  IF ids = {}
           THEN gtp' = Built(gtp)
           ELSE \E ok \in BOOLEAN, raw \in CoinGeckoAnswers(ids) :
                  gtp' = IF ok THEN Built([gtp EXCEPT !.cgRaw = raw])
                         ELSE LET g == AfterSourceError(gtp, "coingecko", "built")
                              IN  IF g.pc = "built" THEN Built(g) ELSE g
    /\ UNCHANGED <<storeVars, alertVars, snapVars, planVars, put, orch, manual>>

(***************************************************************************)
(* The targets handler (pages/api/wallets/[walletId]/targets.ts, PUT)      *)
(***************************************************************************)
PutIdle ==
    [p \in Runs |-> [pc |-> "idle", walletId |-> "", targets |-> <<>>,
                     cleaned |-> <<>>, status |-> 0]]

TargetEntry(u, pct) == [unit |-> u, target_pct_points |-> pct]

\* String(t.unit || "").trim(): the padded spelling of X loses its blank.
Trim(u) == IF u = "X " THEN "X" ELSE u

\* Lines 35-40: each entry with its unit trimmed, the entries with an empty
\* unit or a negative percentage filtered out.
RECURSIVE cleaned(_)
cleaned(targets) ==
    IF targets = <<>> THEN <<>>
    ELSE LET t == TargetEntry(Trim(Head(targets).unit), Head(targets).target_pct_points)
         IN  (IF t.unit # "" /\ t.target_pct_points >= 0 THEN <<t>> ELSE <<>>)
             \o cleaned(Tail(targets))

\* Line 44: cleaned.reduce((acc, t) => acc + t.target_pct_points, 0)
RECURSIVE SumPct(_)
SumPct(entries) ==
    IF entries = <<>> THEN 0
    ELSE Head(entries).target_pct_points + SumPct(Tail(entries))

\* Line 45: Math.abs(sum - 100) > 0.01, in hundredths of a point.
SumIsOff(sum) == Abs(sum - 100) * 100 > 1

Reply(r, status) == [r EXCEPT !.pc = "returned", !.status = status]

\* Lines 28-47: the body is checked; nothing is read or written yet.
ValidateTargets(p) ==
    /\ put[p].pc = "call"
    /\ LET r == put[p]
           c == cleaned(r.targets)
       IN  put' = [put EXCEPT ![p] =
                IF Len(r.targets) = 0 \/ Len(c) = 0 \/ SumIsOff(SumPct(c))
                THEN Reply(r, 400)
                ELSE [r EXCEPT !.pc = "delete", !.cleaned = c]]
    /\ UNCHANGED <<storeVars, alertVars, snapVars, planVars, gtp, orch, manual>>

\* Lines 50-51: delete().eq("wallet_id", walletId), one statement.
DeleteTargets(p) ==
    /\ put[p].pc = "delete"
    /\ \E ok \in BOOLEAN :
         IF ok
         THEN /\ tokenTargets' = tokenTargets \ TargetRows(put[p].walletId)
              /\ put' = [put EXCEPT ![p] = [@ EXCEPT !.pc = "insert"]]
         ELSE /\ tokenTargets' = tokenTargets
              /\ put' = [put EXCEPT ![p] = Reply(@, 500)]
    /\ UNCHANGED <<userWallets, walletSnapshots, snapshotBalances, priceSnapshots,
                   alertVars, snapVars, planVars, gtp, orch, manual>>

\* Line 53: one row per cleaned entry.
PutRows(w, entries) ==
    {[wallet_id |-> w, unit |-> entries[n].unit,
      target_pct_points |-> entries[n].target_pct_points] : n \in DOMAIN entries}

\* UNIQUE(wallet_id, unit): two entries of the statement name one unit, or
\* the table holds a row of the wallet for a unit of the statement.
UniqueViolation(table, w, entries) ==
    \/ \E m, n \in DOMAIN entries : m # n /\ entries[m].unit = entries[n].unit
    \/ \E t \in table, n \in DOMAIN entries : t.wallet_id = w /\ t.unit = entries[n].unit

\* Lines 53-57: insert(rows), one statement: all rows or none.
InsertTargets(p) ==
    /\ put[p].pc = "insert"
    /\ \E ok \in BOOLEAN :
         LET r == put[p] IN
         IF ok /\ ~UniqueViolation(tokenTargets, r.walletId, r.cleaned)
         THEN /\ tokenTargets' = tokenTargets \cup PutRows(r.walletId, r.cleaned)
              /\ put' = [put EXCEPT ![p] = Reply(r, 200)]
         ELSE /\ tokenTargets' = tokenTargets
              /\ put' = [put EXCEPT ![p] = Reply(r, 500)]
    /\ UNCHANGED <<userWallets, walletSnapshots, snapshotBalances, priceSnapshots,
                   alertVars, snapVars, planVars, gtp, orch, manual>>

(***************************************************************************)
(* The batch snapshot orchestrator and the endpoint it calls               *)
(***************************************************************************)
MaxTotal == 3
NoBatch == 0

OrchConfig(batchSize, delayBetweenBatches, maxRetries) ==
    [batchSize |-> batchSize, delayBetweenBatches |-> delayBetweenBatches,
     maxRetries |-> maxRetries]

\* Lines 277-285: the fields of a new orchestrator; trace lists the calls
\* of the endpoint and the delays, in order.
OrchIdle ==
    [pc |-> "idle", config |-> OrchConfig(0, 0, 0), currentBatch |-> 0,
     totalProcessed |-> 0, totalErrors |-> 0, attempt |-> 0, trace |-> <<>>]

\* The endpoint's answer for a batch when the store counts `total` active
\* wallets, `noInfo` of the batch's wallets lacking account info: success
\* with hasMore = offset + batchSize < total and nextBatch = batch + 1 when
\* there is more, nothing otherwise.
BatchResponse(batch, batchSize, total, noInfo) ==
    LET offset == batch * batchSize
        inBatch == IF total <= offset THEN 0
                   ELSE IF total - offset < batchSize THEN total - offset ELSE batchSize
        hasMore == inBatch > 0 /\ offset + batchSize < total
        missing == IF noInfo < inBatch THEN noInfo ELSE inBatch
    IN  [success |-> TRUE, processed |-> inBatch - missing, total |-> total,
         hasMore |-> hasMore, nextBatch |-> IF hasMore THEN batch + 1 ELSE NoBatch,
         errors |-> missing]

CallEvent(batch, attempt, ok, hasMore) ==
    [kind |-> "call", batch |-> batch, attempt |-> attempt, ok |-> ok, hasMore |-> hasMore]

DelayEvent(seconds) == [kind |-> "delay", seconds |-> seconds]

\* Mutation: the backoff doubles from two seconds.
delaySecondsMutant(attempt) == 2 ^ attempt

\* Line 335: Math.pow(2, attempt - 1)
delaySeconds(attempt) == 2 ^ (attempt - 1)

\* Lines 345-358 and 319: run enters its loop and the first attempt of
\* batch currentBatch; with maxRetries < 1 the loop of attempts is empty and
\* processBatchWithRetry throws at once.
StartRun ==
    /\ orch.pc = "call"
    /\ orch' = IF 1 <= orch.config.maxRetries
               THEN [orch EXCEPT !.pc = "attempt", !.attempt = 1]
               ELSE [orch EXCEPT !.pc = "aborted"]
    /\ UNCHANGED <<storeVars, alertVars, snapVars, planVars, gtp, put, manual>>

\* Lines 322-326 and 360-373: the endpoint answers with success; run adds
\* the counts up, takes hasMore and the next batch, and either waits
\* delayBetweenBatches seconds and starts the next batch or completes.
AttemptSucceeds ==
    /\ orch.pc = "attempt"
    /\ \E total \in 0..MaxTotal, noInfo \in {0, 1} :
         LET c == orch.config
             result == BatchResponse(orch.currentBatch, c.batchSize, total, noInfo)
             called == Append(orch.trace,
                              CallEvent(orch.currentBatch, orch.attempt, TRUE, result.hasMore))
             next == IF result.nextBatch # NoBatch THEN result.nextBatch
                     ELSE orch.currentBatch + 1
             after == [orch EXCEPT !.totalProcessed = @ + result.processed,
                                   !.totalErrors = @ + result.errors,
                                   !.currentBatch = next]
         IN  orch' = IF result.hasMore
                     THEN [after EXCEPT !.pc = "attempt", !.attempt = 1,
                             !.trace = Append(called, DelayEvent(c.delayBetweenBatches))]
                     ELSE [after EXCEPT !.pc = "completed", !.trace = called]
    /\ UNCHANGED <<storeVars, alertVars, snapVars, planVars, gtp, put, manual>>

\* Lines 308-311 and 330-342: the call throws (the fetch fails or the
\* status is not ok); the attempt is followed by its backoff and the next
\* attempt, or, being the last, by the throw that makes run exit.
AttemptFails ==
    /\ orch.pc = "attempt"
    /\ LET called == Append(orch.trace,
                            CallEvent(orch.currentBatch, orch.attempt, FALSE, FALSE))
       IN  orch' = IF orch.attempt < orch.config.maxRetries
                   THEN [orch EXCEPT !.attempt = @ + 1,
                           !.trace = Append(called, DelayEvent(delaySeconds(orch.attempt)))]
                   ELSE [orch EXCEPT !.pc = "aborted", !.trace = called]
    /\ UNCHANGED <<storeVars, alertVars, snapVars, planVars, gtp, put, manual>>

(***************************************************************************)
(* The manual snapshot handler (unnamed/part_008)                          *)
(***************************************************************************)
\* COOLDOWN_MS = 10 * 60 * 1000, in minutes.
CooldownMinutes == 10

ManualIdle ==
    [q \in Runs |-> [pc |-> "idle", walletId |-> "", now |-> 0, status |-> 0,
                     processed |-> 0]]

\* Lines 52-61: the wallets' snapshot rows ordered by snapshot_at
\* descending, limit 1.
LatestRows(ws) ==
    {s \in walletSnapshots :
        /\ s.wallet_id \in ws
        /\ \A t \in walletSnapshots : t.wallet_id \in ws => t.snapshot_at <= s.snapshot_at}

\* Mutation: no snapshot is recent.
InCooldownMutant(ws, now) == FALSE

\* Lines 62-64: now - last < COOLDOWN_MS
InCooldown(ws, now) == \E s \in LatestRows(ws) : now - s.snapshot_at < CooldownMinutes

Answer(r, status) == [r EXCEPT !.pc = "returned", !.status = status]

\* The store reads of the handler, any of which may return an error.
ManualReads == {"wallet", "latest", "targets"}

\* Lines 17-91: the request for one wallet arrives at time `now`, after the
\* requests before it were answered; the wallet is looked up, then its
\* latest snapshot, then its targets.
HandleManualSnapshot(q, times) ==
    /\ manual[q].pc = "call"
    /\ \A o \in Runs : o < q => manual[o].pc = "returned"
    /\ \E now \in times, failed \in ManualReads \cup {"none"} :
         /\ now >= clock
         /\ clock' = now
         /\ LET r == [manual[q] EXCEPT !.now = now]
                w == r.walletId
            IN  manual' = [manual EXCEPT ![q] =
                    IF failed = "wallet" THEN Answer(r, 500)
                    ELSE IF w \notin Wallets THEN Answer(r, 404)
                    ELSE IF failed = "latest" THEN Answer(r, 500)
                    ELSE IF InCooldown({w}, now) THEN Answer(r, 429)
                    ELSE IF failed = "targets" THEN Answer(r, 500)
                    ELSE [r EXCEPT !.pc = "pipeline"]]
    /\ UNCHANGED <<storeVars, alertVars, rsp, lastResult, cleanRuns, planVars, gtp, put, orch>>

\* The pipeline invocation that serves request q: one per earlier request
\* that ran it.
RunOf(q) == 1 + Cardinality({o \in Runs : o < q /\ manual[o].status = 200})

\* Lines 93-98: runSnapshotPipeline is called for the wallet.
CallPipeline(q, times) ==
    /\ manual[q].pc = "pipeline"
    /\ StartSnapshot(RunOf(q), {<<manual[q].walletId>>}, times)

\* Lines 100-105: the pipeline returned; the handler answers 200 with its
\* counts.
ManualReturn(q) ==
    /\ manual[q].pc = "pipeline"
    /\ rsp[RunOf(q)].pc = "done"
    /\ manual' = [manual EXCEPT ![q] = [Answer(@, 200) EXCEPT !.processed = lastResult.processed]]
    /\ UNCHANGED <<storeVars, alertVars, snapVars, planVars, gtp, put, orch>>


SvcIdle == gtp = GtpIdle /\ put = PutIdle /\ orch = OrchIdle /\ manual = ManualIdle

(***************************************************************************)
(* Specification of the alert evaluator over a store holding snapshots     *)
(***************************************************************************)

\* The threshold every seeded wallet is configured with.
QuarterPoints == 25

WalletRow(active, basis) ==
    [is_active |-> active, threshold_basis |-> basis, deviation_threshold_pct_points |-> QuarterPoints]

\* w1 is active on the usd basis; w2 is inactive, or active on holdings.
SeedWallets ==
    {[w \in Wallets |-> IF w = "w1" THEN WalletRow(TRUE, "usd") ELSE r] :
        r \in {WalletRow(FALSE, "usd"), WalletRow(TRUE, "holdings")}}

HalfTargets(w) ==
    {[wallet_id |-> w, unit |-> "lovelace", target_pct_points |-> 50],
     [wallet_id |-> w, unit |-> "X", target_pct_points |-> 50]}

\* w1 has a snapshot in both buckets, w2 in the first only.
SeedSnapshots ==
    {[id |-> SnapId(1, c[1], c[2]), wallet_id |-> c[1],
      snapshot_bucket |-> c[2], snapshot_at |-> c[2]] :
        c \in {<<"w1", FirstHour>>, <<"w1", FirstHour + MinutesPerHour>>, <<"w2", FirstHour>>}}

SeedBalances(xq) ==
    UNION {{[id |-> <<s.id, "lovelace">>, snapshot_id |-> s.id, unit |-> "lovelace",
             quantity_raw |-> Pow10(LovelaceDecimals), decimals |-> LovelaceDecimals],
            [id |-> <<s.id, "X">>, snapshot_id |-> s.id, unit |-> "X",
             quantity_raw |-> xq[s.wallet_id], decimals |-> 0]} : s \in SeedSnapshots}

\* The first bucket is priced; in the second no price was resolved and the
\* rows carry a null price_usd.
SeedPrices ==
    {[id |-> <<1, b, u>>, snapshot_bucket |-> b, unit |-> u,
      price_usd |-> IF b = FirstHour THEN 1 ELSE NullPrice] :
        b \in Buckets, u \in {"lovelace", "BTC", "X"}}

Init ==
    /\ userWallets \in SeedWallets
    /\ tokenTargets \in {HalfTargets("w1"), HalfTargets("w1") \cup HalfTargets("w2")}
    /\ walletSnapshots = SeedSnapshots
    /\ \E x1 \in {1, 3} : snapshotBalances = SeedBalances([w \in Wallets |-> IF w = "w1" THEN x1 ELSE 3])
    /\ priceSnapshots = SeedPrices
    /\ alertEvents = {}
    /\ webhook \in BOOLEAN
    /\ sinkLog = {}
    /\ rta = [p \in Runs |-> RtaIdle]
    /\ clock = FirstHour
    /\ rsp = [q \in Runs |-> RspIdle]
    /\ lastResult = NoResult
    /\ cleanRuns = {}
    /\ SvcIdle
    /\ crp = CrpIdle

\* lookups: the outcomes (error or not) the idempotency lookup may have.
AlertStep(p, lookups, reads) ==
    \/ SelectTargets(p)
    \/ SelectSnapshot(p)
    \/ SelectExisting(p, lookups)
    \/ EvaluateDeviations(p, reads)
    \/ InsertEvent(p)
    \/ sendDiscordWebhook(p)
    \/ UpdateEvent(p)
    \/ Return(p)

\* Overlapping invocations: one starts while at most one other is in flight,
\* and any started invocation may take its next step.
AlertsInFlight == {q \in Runs : rta[q].pc \notin {"idle", "done"}}

StartPair(p) == Cardinality(AlertsInFlight) <= 1 /\ SelectWallets(p)

Next ==
    \E p \in Runs : StartPair(p) \/ AlertStep(p, BOOLEAN, BOOLEAN)

Spec == Init /\ [][Next]_vars

\* Sequential invocations: one starts only when no other is in flight.
NoneRunning == \A q \in Runs : rta[q].pc \in {"idle", "done"}

StartSeq(p) == NoneRunning /\ SelectWallets(p)

NextSeq ==
    \E p \in Runs : StartSeq(p) \/ AlertStep(p, BOOLEAN, BOOLEAN)

SpecSeq == Init /\ [][NextSeq]_vars

\* Overlapping invocations over a store whose idempotency lookup never errors.
NextRace ==
    \E p \in Runs : SelectWallets(p) \/ AlertStep(p, {FALSE}, BOOLEAN)

SpecRace == Init /\ [][NextRace]_vars

\* Sequential invocations over a store whose balance and price reads succeed.
NextEval ==
    \E p \in Runs : StartSeq(p) \/ AlertStep(p, BOOLEAN, {TRUE})

SpecEval == Init /\ [][NextEval]_vars

(***************************************************************************)
(* Specifications of the snapshot pipeline over an empty snapshot store    *)
(***************************************************************************)
Asset(w, u, qty) == [wallet_id |-> w, unit |-> u, quantity |-> qty, decimals |-> 0]

\* What the balance provider may answer.  Concurrent invocations are
\* explored over the small answers, sequential ones over the large.
SmallInfo == {[w \in Wallets |-> IF w = "w1" THEN 1 ELSE i2] : i2 \in {NoAccountInfo, 1}}
SmallAssets == {{}, {Asset("w1", "X", 1)}}
SmallWalletsParams == {<<"w1">>, <<"w1", "w2">>}
SmallTimes == {FirstHour, FirstHour + HalfHour}

LargeInfo ==
    {[w \in Wallets |-> IF w = "w1" THEN i1 ELSE i2] :
        i1 \in {NoAccountInfo, 1}, i2 \in {NoAccountInfo, NonNumeric}}
LargeAssets ==
    {a1 \cup a2 :
        a1 \in {{}, {Asset("w1", "X", 1)}, {Asset("w1", "X", 2)}},
        a2 \in {{}, {Asset("w1", "Y", 1)}}}

WalletsParams == {<<>>, <<"w1">>, <<"w1", "w2">>}
TokenPrices == {NullPrice, 1}

InitSnap ==
    /\ userWallets = [w \in Wallets |-> WalletRow(TRUE, "usd")]
    /\ tokenTargets = HalfTargets("w1") \cup HalfTargets("w2")
    /\ walletSnapshots = {}
    /\ snapshotBalances = {}
    /\ priceSnapshots = {}
    /\ alertEvents = {}
    /\ webhook = FALSE
    /\ sinkLog = {}
    /\ rta = [p \in Runs |-> RtaIdle]
    /\ clock = FirstHour
    /\ rsp = [q \in Runs |-> RspIdle]
    /\ lastResult = NoResult
    /\ cleanRuns = {}
    /\ SvcIdle
    /\ crp = CrpIdle

SnapStep(q, infoChoices, assetChoices, tokenPrices) ==
    \/ FetchBalances(q, infoChoices, assetChoices)
    \/ UpsertSnapshots(q)
    \/ FetchSnapshotIds(q)
    \/ UpsertBalances(q)
    \/ GetTokenUsdPrices(q, tokenPrices)
    \/ UpsertPrices(q)

\* Overlapping invocations: one starts while at most one other is in flight.
InFlight == {q \in Runs : rsp[q].pc \notin {"idle", "done"}}

StartSnapshotPair(q) ==
    /\ Cardinality(InFlight) <= 1
    /\ StartSnapshot(q, SmallWalletsParams, SmallTimes)

NextSnap ==
    \/ \E q \in Runs : StartSnapshotPair(q) \/ SnapStep(q, SmallInfo, SmallAssets, {1})

SpecSnap == InitSnap /\ [][NextSnap]_vars

\* Sequential invocations.
NoPipelineRunning == \A q \in Runs : rsp[q].pc \in {"idle", "done"}

StartSnapshotSeq(q) == NoPipelineRunning /\ StartSnapshot(q, WalletsParams, Times)

NextSnapSeq ==
    \/ \E q \in Runs : StartSnapshotSeq(q) \/ SnapStep(q, LargeInfo, LargeAssets, TokenPrices)

SpecSnapSeq == InitSnap /\ [][NextSnapSeq]_vars

(***************************************************************************)
(* Specification of the rebalance planner over bounded inputs              *)
(***************************************************************************)
\* Values are whole grid units up to MaxValue; A may also be +Infinity and
\* B -Infinity.  Targets are multiples of 25 and totals multiples of 4, so
\* that every desired value is a whole number of grid units.
CurrentValues ==
    {[u \in PlanUnitSet |-> IF u = "A" THEN a ELSE IF u = "B" THEN b ELSE Fin(c)] :
        a \in {Fin(n) : n \in 0..MaxValue} \cup {PosInf},
        b \in {Fin(n) : n \in 0..MaxValue} \cup {NegInf},
        c \in 0..MaxValue}

TargetSteps == {0, 25, 50, 75, 100}

\* Targets that sum to 100, or fall short of it by one step.
Targets ==
    {t \in [PlanUnitSet -> TargetSteps] : t["A"] + t["B"] + t["C"] \in {75, 100}}

TotalValues ==
    {Fin(-UnitsPerMicro), Fin(0), Fin(UnitsPerMicro), Fin(2 * UnitsPerMicro), PosInf, NaN}

Prices == [PlanUnitSet -> {NoPrice, 1}]

FeeChoices == {0, BpsScale \div 2}

InitPlan ==
    /\ userWallets = [w \in Wallets |-> WalletRow(TRUE, "usd")]
    /\ tokenTargets = {}
    /\ walletSnapshots = {}
    /\ snapshotBalances = {}
    /\ priceSnapshots = {}
    /\ alertEvents = {}
    /\ webhook = FALSE
    /\ sinkLog = {}
    /\ rta = [p \in Runs |-> RtaIdle]
    /\ clock = FirstHour
    /\ rsp = [q \in Runs |-> RspIdle]
    /\ lastResult = NoResult
    /\ cleanRuns = {}
    /\ SvcIdle
    /\ \E total \in TotalValues, cur \in CurrentValues, tgt \in Targets,
          pr \in Prices, fee \in FeeChoices :
         crp = [CrpIdle EXCEPT
                   !.pc = "call",
                   !.params = [totalValueUsd |-> total, currentValuesUsd |-> cur,
                               targetsPctPoints |-> tgt, prices |-> pr,
                               swapFeeBps |-> fee]]

NextPlan == EnterPlan \/ LoopIteration \/ ReturnPlan

SpecPlan == InitPlan /\ [][NextPlan]_vars

\* The planner over finite, fully priced inputs whose targets sum to 100,
\* with prices other than 1 and with negative, zero and positive fees.
FinitePlanInput(total, cur, tgt) ==
    /\ TotalIsUsable(total)
    /\ \A u \in PlanUnitSet : IsFinite(cur[u])
    /\ tgt["A"] + tgt["B"] + tgt["C"] = 100

PositivePrices == [PlanUnitSet -> {1, 3}]

SignedFees == {-100, 0, 100}

InitPlanFee ==
    /\ userWallets = [w \in Wallets |-> WalletRow(TRUE, "usd")]
    /\ tokenTargets = {}
    /\ walletSnapshots = {}
    /\ snapshotBalances = {}
    /\ priceSnapshots = {}
    /\ alertEvents = {}
    /\ webhook = FALSE
    /\ sinkLog = {}
    /\ rta = [p \in Runs |-> RtaIdle]
    /\ clock = FirstHour
    /\ rsp = [q \in Runs |-> RspIdle]
    /\ lastResult = NoResult
    /\ cleanRuns = {}
    /\ SvcIdle
    /\ \E total \in TotalValues, cur \in CurrentValues, tgt \in Targets,
          pr \in PositivePrices, fee \in SignedFees :
         /\ FinitePlanInput(total, cur, tgt)
         /\ crp = [CrpIdle EXCEPT
                      !.pc = "call",
                      !.params = [totalValueUsd |-> total, currentValuesUsd |-> cur,
                                  targetsPctPoints |-> tgt, prices |-> pr,
                                  swapFeeBps |-> fee]]

SpecPlanFee == InitPlanFee /\ [][NextPlan]_vars

(***************************************************************************)
(* Specification of the price resolver over bounded requests and answers   *)
(***************************************************************************)
\* The unit lists asked for: with repeats and empty strings among them.
Requests ==
    {<<>>, <<"">>, <<"X">>, <<"X", "Y">>, <<"BTC", "X", "Y">>,
     <<"lovelace", "BTC", "X", "Y">>, <<"X", "", "lovelace", "X", "Y">>}

\* The tokens table: X may be defined on any source, Y on the ticker source
\* with another pair or on the aggregator, lovelace on a manual price.
DefsOfX ==
    {{}, {TokenDef("X", TRUE, "kraken", "P1USD", "", "", NullPrice)},
     {TokenDef("X", TRUE, "kraken", "P1USD", "P2USD", "", NullPrice)},
     {TokenDef("X", FALSE, "kraken", "P1USD", "", "", NullPrice)},
     {TokenDef("X", TRUE, "coingecko", "", "", "cgx", NullPrice)},
     {TokenDef("X", TRUE, "manual", "", "", "", 5)},
     {TokenDef("X", TRUE, "dex", "", "", "", NullPrice)}}

DefsOfY ==
    {{}, {TokenDef("Y", TRUE, "kraken", "P2USD", "", "", NullPrice)},
     {TokenDef("Y", TRUE, "coingecko", "", "", "cgy", NullPrice)}}

DefsOfBase ==
    {{}, {TokenDef("lovelace", FALSE, "manual", "", "", "", 5)},
     {TokenDef("lovelace", TRUE, "manual", "", "", "", 5),
      TokenDef("BTC", TRUE, "coingecko", "", "", "bitcoin", NullPrice)}}

TokenTables == {x \cup y \cup b : x \in DefsOfX, y \in DefsOfY, b \in DefsOfBase}

InitPrice ==
    /\ userWallets = [w \in Wallets |-> WalletRow(TRUE, "usd")]
    /\ tokenTargets = {}
    /\ walletSnapshots = {}
    /\ snapshotBalances = {}
    /\ priceSnapshots = {}
    /\ alertEvents = {}
    /\ webhook = FALSE
    /\ sinkLog = {}
    /\ rta = [p \in Runs |-> RtaIdle]
    /\ clock = FirstHour
    /\ rsp = [q \in Runs |-> RspIdle]
    /\ lastResult = NoResult
    /\ crp = CrpIdle
    /\ cleanRuns = {}
    /\ put = PutIdle
    /\ orch = OrchIdle
    /\ manual = ManualIdle
    /\ \E requested \in Requests :
         gtp = [GtpIdle EXCEPT !.pc = "call", !.requested = requested]

NextPrice ==
    \/ EnterPrices
    \/ FetchKrakenRates
    \/ FetchCoinGeckoRates
    \/ QueryTokens(TokenTables)
    \/ FetchKrakenPairsUsd
    \/ FetchCoinGeckoUsd

SpecPrice == InitPrice /\ [][NextPrice]_vars

(***************************************************************************)
(* Specification of the targets handler: two PUTs for one wallet           *)
(***************************************************************************)
\* Bodies: valid ones, a sum that is off, a unit named twice (also under two
\* spellings), a negative entry beside entries that pass or fail without
\* it, an entry without unit, and no entry at all.
PutBodies ==
    {<<>>,
     <<TargetEntry("X", 100)>>,
     <<TargetEntry("Y", 100)>>,
     <<TargetEntry("X", 50), TargetEntry("Y", 50)>>,
     <<TargetEntry("X", 50), TargetEntry("Y", 25)>>,
     <<TargetEntry("X", 50), TargetEntry("X", 50)>>,
     <<TargetEntry("X", 50), TargetEntry("X ", 50)>>,
     <<TargetEntry("X", 100), TargetEntry("Y", -50)>>,
     <<TargetEntry("X", 150), TargetEntry("Y", -50)>>,
     <<TargetEntry("", 50), TargetEntry("X", 100)>>,
     <<TargetEntry("", 100)>>}

InitPut ==
    /\ userWallets = [w \in Wallets |-> WalletRow(TRUE, "usd")]
    /\ tokenTargets = HalfTargets("w1") \cup HalfTargets("w2")
    /\ walletSnapshots = {}
    /\ snapshotBalances = {}
    /\ priceSnapshots = {}
    /\ alertEvents = {}
    /\ webhook = FALSE
    /\ sinkLog = {}
    /\ rta = [p \in Runs |-> RtaIdle]
    /\ clock = FirstHour
    /\ rsp = [q \in Runs |-> RspIdle]
    /\ lastResult = NoResult
    /\ crp = CrpIdle
    /\ cleanRuns = {}
    /\ gtp = GtpIdle
    /\ orch = OrchIdle
    /\ manual = ManualIdle
    /\ \E bodies \in [Runs -> PutBodies] :
         put = [p \in Runs |-> [PutIdle[p] EXCEPT !.pc = "call", !.walletId = "w1",
                                                  !.targets = bodies[p]]]

NextPut == \E p \in Runs : ValidateTargets(p) \/ DeleteTargets(p) \/ InsertTargets(p)

SpecPut == InitPut /\ [][NextPut]_vars

(***************************************************************************)
(* Specification of the orchestrator                                       *)
(***************************************************************************)
\* BATCH_SIZE 1 or 2, DELAY_BETWEEN_BATCHES 0 or 5 seconds, MAX_RETRIES up
\* to 3.
OrchConfigs ==
    {OrchConfig(b, d, m) : b \in {1, 2}, d \in {0, 5}, m \in 0..3}

InitOrch ==
    /\ userWallets = [w \in Wallets |-> WalletRow(TRUE, "usd")]
    /\ tokenTargets = {}
    /\ walletSnapshots = {}
    /\ snapshotBalances = {}
    /\ priceSnapshots = {}
    /\ alertEvents = {}
    /\ webhook = FALSE
    /\ sinkLog = {}
    /\ rta = [p \in Runs |-> RtaIdle]
    /\ clock = FirstHour
    /\ rsp = [q \in Runs |-> RspIdle]
    /\ lastResult = NoResult
    /\ crp = CrpIdle
    /\ cleanRuns = {}
    /\ gtp = GtpIdle
    /\ put = PutIdle
    /\ manual = ManualIdle
    /\ \E c \in OrchConfigs : orch = [OrchIdle EXCEPT !.pc = "call", !.config = c]

NextOrch == StartRun \/ AttemptSucceeds \/ AttemptFails

SpecOrch == InitOrch /\ [][NextOrch]_vars

(***************************************************************************)
(* Specification of the manual snapshot handler: sequential requests       *)
(***************************************************************************)
\* The request and the pipeline read the clock at these instants.
ManualTimes == {FirstHour, FirstHour + 9, FirstHour + 10, FirstHour + 19}

ManualWalletIds == {"w1", "w9"}

ManualInfo == {[w \in Wallets |-> i] : i \in {NoAccountInfo, 1}}

InitManual ==
    /\ userWallets = [w \in Wallets |-> WalletRow(TRUE, "usd")]
    /\ tokenTargets = HalfTargets("w1") \cup HalfTargets("w2")
    /\ walletSnapshots = {}
    /\ snapshotBalances = {}
    /\ priceSnapshots = {}
    /\ alertEvents = {}
    /\ webhook = FALSE
    /\ sinkLog = {}
    /\ rta = [p \in Runs |-> RtaIdle]
    /\ clock = FirstHour
    /\ rsp = [q \in Runs |-> RspIdle]
    /\ lastResult = NoResult
    /\ crp = CrpIdle
    /\ cleanRuns = {}
    /\ gtp = GtpIdle
    /\ put = PutIdle
    /\ orch = OrchIdle
    /\ \E ids \in [Runs -> ManualWalletIds] :
         manual = [q \in Runs |-> [ManualIdle[q] EXCEPT !.pc = "call", !.walletId = ids[q]]]

NextManual ==
    \E q \in Runs :
        \/ HandleManualSnapshot(q, ManualTimes)
        \/ CallPipeline(q, ManualTimes)
        \/ (manual[q].pc = "pipeline" /\ SnapStep(RunOf(q), ManualInfo, SmallAssets, {1}))
        \/ ManualReturn(q)

SpecManual == InitManual /\ [][NextManual]_vars

(***************************************************************************)
(* Properties of the alert evaluator                                       *)
(***************************************************************************)
Delivered(w, sid) ==
    {c \in sinkLog : c.wallet_id = w /\ c.snapshot_id = sid /\ c.ok}

\* C1: after any number of sequential invocations the store holds at most
\* one alert event row per (wallet, snapshot) and at most one notification
\* was delivered for it.
AlertIdempotentSequential ==
    \A w \in Wallets : \A s \in walletSnapshots :
        /\ Cardinality(ExistingEvents(w, s.id)) <= 1
        /\ Cardinality(Delivered(w, s.id)) <= 1

\* C2: with overlapping invocations (and an idempotency lookup that never
\* errors) no two distinct alert event rows, and no two delivered
\* notifications, are for the same (wallet, snapshot).
AlertIdempotentConcurrent ==
    /\ \A e1, e2 \in alertEvents :
          (e1.wallet_id = e2.wallet_id /\ e1.snapshot_id = e2.snapshot_id)
              => e1.id = e2.id
    /\ \A c1, c2 \in sinkLog :
          (c1.ok /\ c2.ok /\ c1.wallet_id = c2.wallet_id
                 /\ c1.snapshot_id = c2.snapshot_id) => c1.run = c2.run

\* C3: every call of the notification sink is for an alert event row that
\* the same invocation inserted for that wallet and snapshot; an invocation
\* about to call the sink holds the id of such a row (so a failed insert,
\* which yields no row, is never followed by a sink call).
SinkOnlyAfterInsert ==
    /\ \A c \in sinkLog :
          \E e \in alertEvents :
              /\ e.id = c.evt
              /\ e.id = <<c.run, c.wallet_id>>
              /\ e.wallet_id = c.wallet_id
              /\ e.snapshot_id = c.snapshot_id
    /\ \A p \in Runs :
          rta[p].pc = "send" =>
              \E e \in alertEvents :
                  /\ e.id = rta[p].evt
                  /\ e.wallet_id = wallet(p)
                  /\ e.snapshot_id = rta[p].snapshot

WitnessSinkAfterInsert ==
    \E c \in sinkLog : \E e \in alertEvents :
        e.id = c.evt /\ e.snapshot_id = c.snapshot_id

\* The delivery c has been followed by its update of the row.
DeliverySettled(c) ==
    ~(rta[c.run].pc = "update" /\ rta[c.run].evt = c.evt)

OutcomeRecorded ==
    \A c \in sinkLog :
        DeliverySettled(c) =>
            \E e \in alertEvents :
                /\ e.id = c.evt
                /\ e.discord_sent = c.ok
                /\ e.discord_error = IF c.ok THEN "null" ELSE "Discord webhook failed"

AlertsSentCounted ==
    \A p \in Runs :
        (IF rta[p].pc = "done" THEN rta[p].result[2] ELSE rta[p].alertsSent)
            = Cardinality({c \in sinkLog : c.run = p /\ c.ok})

UpdateInsertsNoRow ==
    \A p \in Runs :
        (rta[p].pc = "update" /\ rta'[p].pc # "update") =>
            {e.id : e \in alertEvents'} = {e.id : e \in alertEvents}

SnapshotRowsOf(w, b) ==
    {r \in walletSnapshots : r.wallet_id = w /\ r.snapshot_bucket = b}

SnapshotRowUnique ==
    \A w \in Wallets : \A b \in Buckets : Cardinality(SnapshotRowsOf(w, b)) <= 1

\* Every stored snapshot row is still there after the step, under its id.
SnapshotRowsKept ==
    \A r \in walletSnapshots :
        \E n \in walletSnapshots' :
            n.id = r.id /\ n.wallet_id = r.wallet_id /\ n.snapshot_bucket = r.snapshot_bucket

\* A run that upserts a wallet which has a row in the bucket leaves that row,
\* stamped with the run's time, and no other row for the pair.
SecondRunUpdates ==
    \A q \in Runs :
        (rsp[q].pc = "upsertSnapshots" /\ rsp'[q].pc = "fetchIds") =>
            \A w \in Range(rsp[q].toUpsert) :
                \A r \in SnapshotRowsOf(w, toSnapshotBucket(rsp[q].now)) :
                    {n \in walletSnapshots' :
                        n.wallet_id = w /\ n.snapshot_bucket = r.snapshot_bucket}
                      = {[r EXCEPT !.snapshot_at = rsp[q].now]}

\* C5: after any sequence of pipeline runs, sequential or overlapping, the
\* store holds at most one wallet_snapshots row per (wallet, hour bucket); a
\* run for a wallet that already has a row in the bucket updates that row
\* (same id, new snapshot_at) and adds none.
OneSnapshotPerWalletBucket ==
    /\ []SnapshotRowUnique
    /\ [][SnapshotRowsKept /\ SecondRunUpdates]_vars

\* Two overlapping runs at different times of one hour have both upserted
\* w1; the one row carries the later time.
WitnessSnapshotUpdated ==
    \E q1, q2 \in Runs :
        /\ q1 # q2
        /\ rsp[q1].pc = "fetchIds" /\ rsp[q2].pc = "fetchIds"
        /\ rsp[q1].now < rsp[q2].now
        /\ toSnapshotBucket(rsp[q1].now) = toSnapshotBucket(rsp[q2].now)
        /\ "w1" \in Range(rsp[q1].toUpsert) /\ "w1" \in Range(rsp[q2].toUpsert)
        /\ \E r \in walletSnapshots :
              /\ SnapshotRowsOf("w1", toSnapshotBucket(rsp[q1].now)) = {r}
              /\ r.snapshot_at = rsp[q2].now

PriceRowsOf(b) == {r \in priceSnapshots : r.snapshot_bucket = b}

\* C6: token_price_snapshots holds at most one row per (bucket, unit): the
\* price rows of a bucket are as many as the distinct units priced in it,
\* all of them among lovelace, BTC and the units some wallet tracks, however
\* many wallets track a unit and however many runs priced it.
OnePricePerBucketUnit ==
    \A b \in Buckets :
        /\ Cardinality(PriceRowsOf(b)) = Cardinality({r.unit : r \in PriceRowsOf(b)})
        /\ {r.unit : r \in PriceRowsOf(b)}
              \subseteq {"lovelace", "BTC"} \cup unitsToPriceUsd(WalletOrder)

\* Both wallets, which track X, were snapshotted in the bucket by runs that
\* returned no error, the last of them a run for w1 alone: the bucket holds
\* one row for X.
WitnessPriceShared ==
    \E b \in Buckets :
        /\ {<<"w1", b>>, <<"w2", b>>} \subseteq cleanRuns
        /\ lastResult.processed = 1 /\ lastResult.snapshotBucketIso = b
        /\ lastResult.errors = <<>>
        /\ Cardinality({r \in PriceRowsOf(b) : r.unit = "X"}) = 1

\* The stored balance rows of snapshot sid, without their row ids.
StoredBalances(table, sid) ==
    {[snapshot_id |-> r.snapshot_id, unit |-> r.unit,
      quantity_raw |-> r.quantity_raw, decimals |-> r.decimals] :
        r \in {x \in table : x.snapshot_id = sid}}

\* C7: when a run returns without errors for a wallet that an earlier run in
\* the same hour bucket also completed without errors, the balance rows of
\* the wallet's snapshot are exactly the rows built from this run's fetch
\* (lovelace and the monitored units held): latest quantities, same unit set.
BalancesAreLatestFetch ==
    [][\A q \in Runs :
          (/\ rsp[q].pc = "upsertPrices" /\ rsp'[q].pc = "done"
           /\ rsp[q].errors = <<>> /\ lastResult'.errors = <<>>) =>
              \A w \in Range(rsp[q].toUpsert) :
                  <<w, toSnapshotBucket(rsp[q].now)>> \in cleanRuns =>
                      \A s \in SnapshotRowsOf(w, toSnapshotBucket(rsp[q].now)) :
                          StoredBalances(snapshotBalances', s.id)
                            = {n \in rsp[q].balanceRows : n.snapshot_id = s.id}]_vars

(***************************************************************************)
(* Properties of the rebalance planner                                     *)
(***************************************************************************)
\* The plan has been returned from the loop (the guard on the total passed).
PlanReturned == crp.pc = "returned" /\ TotalIsUsable(crp.params.totalValueUsd)

\* The sum of the deltas of the overweight units, before any move.
SumOverweightDeltas ==
    LET o == overweight(crp.params)
    IN  ExtSum([n \in DOMAIN o |-> o[n].deltaUsd])

SumTradeValue ==
    ExtSum([n \in DOMAIN crp.suggestions |-> crp.suggestions[n].tradeValueUsd])

\* C8 as stated: for every input with totalValue > 0, the sum of tradeValue
\* over the suggestions of the returned plan does not exceed the sum of the
\* initial positive deltas of the overweight units.
TradeValueWithinOverweight ==
    PlanReturned => LessEq(SumTradeValue, SumOverweightDeltas)

\* C8 amended: tradeValue is the moved value rounded to 6 decimals, so the
\* sum of tradeValue exceeds the sum of the initial overweight deltas by at
\* most half of 1e-6 per suggestion; the moved values themselves never
\* exceed them (no overweight delta ends below zero).
TradeValueWithinOverweightRounded ==
    PlanReturned =>
        /\ LessEq(SumTradeValue,
                  Plus(SumOverweightDeltas,
                       Fin((UnitsPerMicro \div 2) * Len(crp.suggestions))))
        /\ \A n \in DOMAIN crp.overweight :
              /\ LessEq(Fin(0), crp.overweight[n].deltaUsd)
              /\ LessEq(crp.overweight[n].deltaUsd, overweight(crp.params)[n].deltaUsd)

\* A returned plan of two suggestions whose rounded trade values sum to
\* more than the overweight deltas they moved.
WitnessTradeRoundedUp ==
    /\ PlanReturned
    /\ Len(crp.suggestions) = 2
    /\ Less(SumOverweightDeltas, SumTradeValue)

\* C9: every iteration of the loop breaks or advances at least one of the
\* two pointers, and the loop runs at most |overweight| + |underweight|
\* iterations, for every input.
PlannerTerminates ==
    /\ [](crp.iters <= Len(crp.overweight) + Len(crp.underweight))
    /\ [][(crp.pc = "loop" /\ crp'.iters = crp.iters + 1) =>
             (crp'.broke \/ crp'.i > crp.i \/ crp'.j > crp.j)]_vars

\* The precondition of C10: finite values that sum to the total, a positive
\* price for every unit, targets that sum to 100.
BalancedInput(p) ==
    /\ TotalIsUsable(p.totalValueUsd)
    /\ \A u \in PlanUnitSet : IsFinite(p.currentValuesUsd[u]) /\ ~MissingPrice(p, u)
    /\ ExtSum([n \in DOMAIN PlanUnits |-> p.currentValuesUsd[PlanUnits[n]]]) = p.totalValueUsd
    /\ p.targetsPctPoints["A"] + p.targetsPctPoints["B"] + p.targetsPctPoints["C"] = 100

\* Netting the moves leaves every unit at its target: the deltas of all
\* entries have come within epsilon of zero.
AllDeltasSettled ==
    /\ \A n \in DOMAIN crp.overweight : FromIsSettled(crp.overweight[n].deltaUsd)
    /\ \A n \in DOMAIN crp.underweight : ToIsSettled(crp.underweight[n].deltaUsd)

\* One overweight unit and one underweight unit: the plan is the single
\* suggestion between them, its tradeValue given by value(d).
SingleLeg(value(_)) ==
    LET o == overweight(crp.params)
        u == underweight(crp.params)
    IN  (Len(o) = 1 /\ Len(u) = 1) =>
            /\ Len(crp.suggestions) = 1
            /\ crp.suggestions[1].fromUnit = o[1].unit
            /\ crp.suggestions[1].toUnit = u[1].unit
            /\ crp.suggestions[1].tradeValueUsd = value(o[1].deltaUsd)

Unrounded(d) == d

\* C10 as stated: on a balanced input with every price positive the sum of
\* tradeValue equals the sum of the overweight deltas, netting the moves
\* leaves every unit within epsilon of its target, and two units off by d
\* give the single suggestion with tradeValue d.
PlanFullyRebalances ==
    (PlanReturned /\ BalancedInput(crp.params)) =>
        /\ SumTradeValue = SumOverweightDeltas
        /\ AllDeltasSettled
        /\ SingleLeg(Unrounded)

\* Every current and desired value is a whole number of 1e-6.
OnSixDecimals(p) ==
    \A u \in PlanUnitSet :
        /\ p.currentValuesUsd[u].v % UnitsPerMicro = 0
        /\ desiredUsd(p, u).v % UnitsPerMicro = 0

\* C10 amended: on a balanced input with every price positive, netting the
\* moves leaves every unit within epsilon of its target; the sum of
\* tradeValue is within half of 1e-6 per suggestion of the sum of the
\* overweight deltas, and equal to it when all values have at most six
\* decimals; two units off by d give the single suggestion with tradeValue
\* d rounded to six decimals.
PlanFullyRebalancesRounded ==
    (PlanReturned /\ BalancedInput(crp.params)) =>
        /\ AllDeltasSettled
        /\ LET half == Fin((UnitsPerMicro \div 2) * Len(crp.suggestions))
           IN  /\ LessEq(SumTradeValue, Plus(SumOverweightDeltas, half))
               /\ LessEq(SumOverweightDeltas, Plus(SumTradeValue, half))
        /\ OnSixDecimals(crp.params) => SumTradeValue = SumOverweightDeltas
        /\ SingleLeg(round6)

\* A balanced, fully priced input that took two suggestions to rebalance.
WitnessFullyRebalanced ==
    /\ PlanReturned
    /\ BalancedInput(crp.params)
    /\ Len(crp.suggestions) = 2
    /\ AllDeltasSettled
    /\ SumOverweightDeltas # Fin(0)

\* The value moved by the step: what the overweight entry at the pointer lost.
MovedBy(c, d) == Minus(c.overweight[c.i + 1].deltaUsd, d.overweight[c.i + 1].deltaUsd)

\* The suggestions without the field the fee may change.
FeeBlind(sugg) ==
    [n \in DOMAIN sugg |->
        [fromUnit |-> sugg[n].fromUnit, toUnit |-> sugg[n].toUnit,
         fromQtyHuman |-> sugg[n].fromQtyHuman, tradeValueUsd |-> sugg[n].tradeValueUsd]]

WithFee(p, fee) == [p EXCEPT !.swapFeeBps = fee]

\* The suggestion a step appends carries the moved value: fromQtyHuman x
\* fromPrice and toQtyHuman x toPrice are the moved value and the moved
\* value less the fee, each to within the rounding of the quantity to 8
\* decimals; tradeValueUsd is the moved value before the fee, to 6 decimals.
SuggestionCarriesMove ==
    (crp.pc = "loop" /\ Len(crp'.suggestions) = Len(crp.suggestions) + 1) =>
        LET s == crp'.suggestions[Len(crp'.suggestions)]
            p == crp.params
            moved == MovedBy(crp, crp').v * QtyPerUnit
            feeBps == IF p.swapFeeBps > 0 THEN p.swapFeeBps ELSE 0
            fromPrice == p.prices[s.fromUnit]
            toPrice == p.prices[s.toUnit]
        IN  /\ 2 * Abs(s.fromQtyHuman.v * fromPrice - moved) <= fromPrice
            /\ 2 * Abs(s.toQtyHuman.v * toPrice * BpsScale - moved * (BpsScale - feeBps))
                   <= toPrice * BpsScale
            /\ s.tradeValueUsd.v % UnitsPerMicro = 0
            /\ 2 * Abs(s.tradeValueUsd.v - MovedBy(crp, crp').v) <= UnitsPerMicro

\* The fee changes toQtyHuman only, and a negative fee is a fee of zero.
FeeChangesToQtyOnly ==
    crp.pc = "returned" =>
        /\ \A fee \in SignedFees :
              FeeBlind(computeRebalancePlan(WithFee(crp.params, fee)).suggestions)
                  = FeeBlind(crp.suggestions)
        /\ crp.params.swapFeeBps < 0 =>
              computeRebalancePlan(WithFee(crp.params, 0)).suggestions = crp.suggestions

Unpriced(u) == crp.params.prices[u] = NoPrice

SuggestionsArePriced ==
    \A n \in DOMAIN crp.suggestions :
        ~Unpriced(crp.suggestions[n].fromUnit) /\ ~Unpriced(crp.suggestions[n].toUnit)

\* An iteration whose overweight or underweight entry lacks a price advances
\* the pointer of exactly the side(s) lacking it, appends one note naming
\* them, and changes neither the deltas nor the suggestions.
UnpricedLegIsSkipped ==
    (/\ crp.pc = "loop" /\ crp'.iters = crp.iters + 1 /\ ~crp'.broke
     /\ \/ Unpriced(crp.overweight[crp.i + 1].unit)
        \/ Unpriced(crp.underweight[crp.j + 1].unit)) =>
        LET from == crp.overweight[crp.i + 1].unit
            to == crp.underweight[crp.j + 1].unit
        IN  /\ crp'.i = crp.i + (IF Unpriced(from) THEN 1 ELSE 0)
            /\ crp'.j = crp.j + (IF Unpriced(to) THEN 1 ELSE 0)
            /\ crp'.notes = Append(crp.notes,
                                   <<"Missing USD price", {u \in {from, to} : Unpriced(u)}>>)
            /\ crp'.overweight = crp.overweight
            /\ crp'.underweight = crp.underweight
            /\ crp'.suggestions = crp.suggestions

\* C12: no suggestion names a unit without a resolved price; when the
\* current overweight or underweight entry lacks a price only the pointer of
\* the side(s) lacking it advances, one note is recorded for the leg, the
\* deltas stay as they are, and the priced side stays at its entry to be
\* matched against the next entry of the other side.
NoSuggestionWithoutPrice ==
    /\ []SuggestionsArePriced
    /\ [][UnpricedLegIsSkipped]_vars

\* The first overweight unit had no price and was skipped with a note; the
\* first underweight entry was then matched with the second overweight one.
WitnessUnpricedSkipped ==
    /\ crp.pc = "returned"
    /\ Len(crp.overweight) = 2
    /\ Unpriced(crp.overweight[1].unit)
    /\ crp.notes = <<(<<"Missing USD price", {crp.overweight[1].unit}>>)>>
    /\ Len(crp.suggestions) = 1
    /\ crp.suggestions[1].fromUnit = crp.overweight[2].unit
    /\ crp.suggestions[1].toUnit = crp.underweight[1].unit

\* C13: when totalValue is not finite or is <= 0 the function returns
\* exactly the plan with no allocations, no suggestions and the single note
\* "Portfolio total value is zero; cannot rebalance.", having computed no
\* delta and entered no loop.
ZeroTotalReturnsSentinel ==
    (crp.pc # "call" /\ ( \/ ~IsFinite(crp.params.totalValueUsd)
                          \/ crp.params.totalValueUsd.v <= 0)) =>
        /\ crp.pc = "returned"
        /\ crp.allocations = <<>>
        /\ crp.suggestions = <<>>
        /\ crp.notes = <<(<<"Portfolio total value is zero; cannot rebalance.", {}>>)>>
        /\ crp.overweight = <<>> /\ crp.underweight = <<>>
        /\ crp.iters = 0

\* The function returned the sentinel plan for a total that is not finite,
\* although some unit had a positive value.
WitnessZeroTotal ==
    /\ crp.pc = "returned"
    /\ ~IsFinite(crp.params.totalValueUsd)
    /\ crp.params.currentValuesUsd["C"] = Fin(1)
    /\ crp.notes # <<>>

\* The threshold test of one (wallet, snapshot), written out on the
\* percentages: some targeted unit is at least the threshold away from its
\* target.
OverThreshold(w, sid) ==
    \E u \in TargetUnits(w) :
        LET c == currentPct(w, sid, u)
        IN  Abs(c[1] - targetsMap(w)[u] * c[2])
                >= userWallets[w].deviation_threshold_pct_points * c[2]

\* The largest distance of a targeted unit from its target is the threshold.
AtThreshold(w, sid) ==
    /\ OverThreshold(w, sid)
    /\ \A u \in TargetUnits(w) :
        LET c == currentPct(w, sid, u)
        IN  Abs(c[1] - targetsMap(w)[u] * c[2])
                <= userWallets[w].deviation_threshold_pct_points * c[2]

AlertsOnlyOverThreshold ==
    /\ \A e \in alertEvents : OverThreshold(e.wallet_id, e.snapshot_id)
    /\ \A l \in sinkLog : OverThreshold(l.wallet_id, l.snapshot_id)

\* The evaluation of a wallet goes on to the insert exactly when some unit is
\* over the threshold, and itself writes and sends nothing.
EvaluationDecides ==
    \A p \in Runs :
        (rta[p].pc = "evaluate" /\ rta'[p] # rta[p]) =>
            /\ (rta'[p].pc = "insert") <=> OverThreshold(wallet(p), rta[p].snapshot)
            /\ rta'[p].pc # "insert" => rta'[p] = Continue(rta[p])
            /\ alertEvents' = alertEvents
            /\ sinkLog' = sinkLog

\* C14: for an active wallet with targets, a snapshot and no alert event for
\* it, whose balances and prices are read, an alert is raised if and only if
\* some targeted unit has |currentPct - targetPct| >= the threshold, equality
\* included; when no unit has, no row is inserted and nothing is sent.
AlertIffOverThreshold ==
    /\ []AlertsOnlyOverThreshold
    /\ [][EvaluationDecides]_vars

\* A run over the first bucket passed over the first wallet, which is under
\* the threshold and has no alert row, and stored an alert row for the second,
\* whose largest deviation equals the threshold.
WitnessAlertAtThreshold ==
    \E p \in Runs :
        /\ rta[p].pc = "send" /\ rta[p].k = 2
        /\ rta[p].bucketIso = FirstHour
        /\ AtThreshold(wallet(p), rta[p].snapshot)
        /\ ExistingEvents(wallet(p), rta[p].snapshot) # {}
        /\ ~OverThreshold("w1", SnapshotFor("w1", FirstHour))
        /\ ExistingEvents("w1", SnapshotFor("w1", FirstHour)) = {}

\* The summed value of the targeted units (their summed quantity on the
\* holdings basis).
TargetedTotal(w, sid) ==
    LET tu == TargetUnits(w)
    IN  IF userWallets[w].threshold_basis = "holdings"
        THEN SumOver(tu, [x \in tu |-> quantitiesHuman(sid, x)])
        ELSE SumOver(tu, [x \in tu |-> valueUsd(sid, SnapshotRow(sid).snapshot_bucket, x)])

\* C15: a wallet whose targeted units sum to a value <= 0 is not evaluated:
\* no deviation is recorded for it, no alert event is inserted and no
\* notification is sent.
NoAlertOnZeroTotal ==
    /\ \A p \in Runs :
        rta[p].pc \in {"insert", "send", "update"} =>
            TargetedTotal(wallet(p), rta[p].snapshot) > 0
    /\ \A e \in alertEvents : TargetedTotal(e.wallet_id, e.snapshot_id) > 0
    /\ \A l \in sinkLog : TargetedTotal(l.wallet_id, l.snapshot_id) > 0

\* The runs that hold the percentages of a wallet's snapshot.
Evaluated == {p \in Runs : rta[p].pc \in {"evaluate", "insert", "send", "update"}}

\* C16: the current percentages over the targeted units sum to 100 when
\* their total value (total quantity on the holdings basis) is positive, and
\* are all exactly 0, never NaN or infinite, when that total is <= 0.
PercentagesSumTo100 ==
    \A p \in Evaluated :
        LET w == wallet(p)
            sid == rta[p].snapshot
            tu == TargetUnits(w)
            pct == [u \in tu |-> currentPct(w, sid, u)]
        IN  /\ \A u \in tu : pct[u][2] > 0
            /\ IF TargetedTotal(w, sid) > 0
               THEN /\ \A u, v \in tu : pct[u][2] = pct[v][2]
                    /\ \A u \in tu :
                         SumOver(tu, [x \in tu |-> pct[x][1]]) = 100 * pct[u][2]
               ELSE \A u \in tu : pct[u][1] = 0

\* A wallet whose total is zero is being evaluated after an alert was stored
\* for a snapshot of positive total with unequal percentages.
WitnessPercentages ==
    /\ \E p \in Evaluated : TargetedTotal(wallet(p), rta[p].snapshot) = 0
    /\ \E e \in alertEvents :
        /\ TargetedTotal(e.wallet_id, e.snapshot_id) > 0
        /\ currentPct(e.wallet_id, e.snapshot_id, "X")[1]
               > currentPct(e.wallet_id, e.snapshot_id, "lovelace")[1]

\* A run at the balance fetch returns a Koios failure.
KoiosFailureStep(q) ==
    /\ rsp[q].pc = "fetch"
    /\ lastResult' # lastResult
    /\ lastResult'.errors # <<>>
    /\ lastResult'.errors[1][1] = "Koios API error"

KoiosFailureWritesNothing ==
    \A q \in Runs :
        KoiosFailureStep(q) =>
            /\ rsp'[q].pc = "done"
            /\ lastResult'.processed = 0
            /\ Len(lastResult'.errors) = 1
            /\ lastResult'.errors[1][2] \in KoiosCalls
            /\ UNCHANGED storeVars

\* C17: if either batched balance-provider call fails, the run returns
\* processed = 0 with the failure message as its only error, writes no
\* snapshot, balance or price row, and ends before any price is resolved.
KoiosFailureAborts == [][KoiosFailureWritesNothing]_vars

\* The account_assets call failed for a run that followed one which had
\* stored snapshot, balance and price rows; the store is as that run left it.
WitnessKoiosFailure ==
    /\ NoPipelineRunning
    /\ lastResult.processed = 0
    /\ lastResult.errors = <<(<<"Koios API error", "account_assets">>)>>
    /\ walletSnapshots # {} /\ snapshotBalances # {} /\ priceSnapshots # {}

\* The wallets of the batch the provider returned account info for.
HasInfo(r) == {w \in Range(r.wallets) : r.accountInfo[w] # NoAccountInfo}

WalletOf(sid) == sid[2]

NoInfoOnly(errors) ==
    \A n \in DOMAIN errors : errors[n][1] = "No account info found for wallet"

Stored(n) ==
    \E b \in snapshotBalances :
        /\ b.snapshot_id = n.snapshot_id /\ b.unit = n.unit
        /\ b.quantity_raw = n.quantity_raw /\ b.decimals = n.decimals

PartialInfoStep ==
    \A q \in Runs :
        LET r == rsp[q]
            r2 == rsp'[q]
            b == toSnapshotBucket(r.now)
        IN  /\ (r.pc = "fetch" /\ r2.pc = "upsertSnapshots") =>
                 LET has == {w \in Range(r.wallets) : r2.accountInfo[w] # NoAccountInfo}
                 IN  /\ Range(r2.toUpsert) = has
                     /\ Len(r2.toUpsert) = Cardinality(has)
                     /\ NoInfoOnly(r2.errors)
                     /\ Len(r2.errors) = Cardinality(Range(r.wallets) \ has)
                     /\ {e[2] : e \in Range(r2.errors)} = Range(r.wallets) \ has
            /\ (r.pc = "upsertSnapshots" /\ r2.pc = "fetchIds") =>
                 /\ \A w \in HasInfo(r) :
                      \E s \in walletSnapshots' :
                          s.wallet_id = w /\ s.snapshot_bucket = b /\ s.snapshot_at = r.now
                 /\ \A s \in walletSnapshots' \ walletSnapshots : s.wallet_id \in HasInfo(r)
            /\ (r.pc = "upsertBalances" /\ r2.pc = "prices") =>
                 /\ {WalletOf(n.snapshot_id) : n \in r.balanceRows} = HasInfo(r)
                 /\ r2.errors = r.errors => \A n \in r.balanceRows : Stored(n)'
                 /\ \A n \in snapshotBalances' \ snapshotBalances :
                      WalletOf(n.snapshot_id) \in HasInfo(r)
            /\ (r.pc # "done" /\ r2.pc = "done" /\ NoInfoOnly(lastResult'.errors)) =>
                 lastResult'.processed = Len(r.wallets) - Len(lastResult'.errors)

\* C18: when the provider returns account info for only some wallets of the
\* batch, snapshot and balance rows are written exactly for the wallets that
\* have it, there is one error entry per wallet that has none, the other
\* wallets are still processed, and a run without store failures returns
\* processed = the number of wallets with account info.
RowsOnlyForWalletsWithInfo == [][PartialInfoStep]_vars

\* The first wallet of a batch of two had no account info: the run wrote the
\* rows of the second and returned one error and processed = 1.
WitnessPartialInfo ==
    /\ NoPipelineRunning
    /\ lastResult.processed = 1
    /\ lastResult.errors = <<(<<"No account info found for wallet", "w1">>)>>
    /\ {s.wallet_id : s \in walletSnapshots} = {"w2"}
    /\ {WalletOf(n.snapshot_id) : n \in snapshotBalances} = {"w2"}

BalancesFailure == <<"Failed to save wallet snapshot balances to database", "">>
PricesFailure == <<"Failed to save token price snapshots to database", "">>

\* The snapshot rows the run upserted.
UpsertedSnapshots(r) ==
    {s \in walletSnapshots : /\ s.wallet_id \in Range(r.toUpsert)
                             /\ s.snapshot_bucket = toSnapshotBucket(r.now)
                             /\ s.snapshot_at = r.now}

PriceStored(n) ==
    \E x \in priceSnapshots :
        x.snapshot_bucket = n.snapshot_bucket /\ x.unit = n.unit /\ x.price_usd = n.price_usd

LateFailureStep ==
    \A q \in Runs :
        LET r == rsp[q]
            r2 == rsp'[q]
        IN  /\ (r.pc \in {"upsertBalances", "prices", "upsertPrices"} /\ r2 # r) =>
                 /\ walletSnapshots' = walletSnapshots
                 /\ Cardinality(UpsertedSnapshots(r)) = Len(r.toUpsert)
            /\ (r.pc = "upsertBalances" /\ r2 # r) =>
                 /\ r2.pc = "prices"
                 /\ r2.errors \in {r.errors, Append(r.errors, BalancesFailure)}
                 /\ r2.errors = r.errors => \A n \in r.balanceRows : Stored(n)'
                 /\ r2.errors # r.errors => snapshotBalances' = snapshotBalances
            /\ (r.pc = "prices" /\ r2 # r) =>
                 /\ r2.pc = "upsertPrices" /\ r2.priceRows # {} /\ r2.errors = r.errors
            /\ (r.pc = "upsertPrices" /\ r2 # r) =>
                 /\ r2.pc = "done"
                 /\ lastResult'.processed = Len(r.toUpsert)
                 /\ lastResult'.errors \in {r.errors, Append(r.errors, PricesFailure)}
                 /\ lastResult'.errors = r.errors => \A n \in r.priceRows : PriceStored(n)'
                 /\ lastResult'.errors # r.errors => priceSnapshots' = priceSnapshots

\* C19: if the balances upsert or the prices upsert fails, the snapshot rows
\* upserted earlier in the run remain, the failure is appended to errors,
\* processed is the number of snapshot rows upserted, and after a failed
\* balances upsert the prices are still resolved and their upsert attempted.
LateFailuresKeepSnapshots == [][LateFailureStep]_vars

\* Both late upserts of a run over two wallets failed: both failures are
\* reported, processed = 2, and only the two snapshot rows are in the store.
WitnessLateFailures ==
    /\ NoPipelineRunning
    /\ lastResult.errors = <<BalancesFailure, PricesFailure>>
    /\ lastResult.processed = 2
    /\ Cardinality(walletSnapshots) = 2
    /\ snapshotBalances = {} /\ priceSnapshots = {}

MonitoredOrLovelace(n) ==
    \/ n.unit = "lovelace"
    \/ n.unit \in monitoredUnitsByWalletId(WalletOf(n.snapshot_id))

\* The snapshot rows the run read back for its wallets.
FoundSnapshots(r) ==
    {s \in walletSnapshots : /\ s.wallet_id \in Range(r.toUpsert)
                             /\ s.snapshot_bucket = toSnapshotBucket(r.now)}

\* C20: every balance row the pipeline writes for a wallet has unit lovelace
\* or a unit of monitoredUnitsByWalletId of that wallet; an asset the wallet
\* holds but does not monitor is never persisted; exactly one lovelace row is
\* written for each wallet whose snapshot row was found.
BalanceRowsAreMonitored ==
    /\ \A n \in snapshotBalances : MonitoredOrLovelace(n)
    /\ \A s \in walletSnapshots :
        Cardinality({n \in snapshotBalances : n.snapshot_id = s.id /\ n.unit = "lovelace"}) <= 1
    /\ \A q \in Runs :
        rsp[q].pc = "upsertBalances" =>
            LET r == rsp[q]
            IN  /\ \A n \in r.balanceRows :
                     /\ MonitoredOrLovelace(n)
                     /\ \E s \in FoundSnapshots(r) : s.id = n.snapshot_id
                /\ \A a \in r.accountAssets :
                     a.unit \notin monitoredUnitsByWalletId(a.wallet_id) \cup {"lovelace"} =>
                         ~\E n \in r.balanceRows :
                             WalletOf(n.snapshot_id) = a.wallet_id /\ n.unit = a.unit
                /\ \A s \in FoundSnapshots(r) :
                     Cardinality({n \in r.balanceRows :
                                     n.snapshot_id = s.id /\ n.unit = "lovelace"}) = 1

\* The provider returned a monitored and an unmonitored asset for w1: the
\* rows about to be written hold lovelace for both wallets and only the
\* monitored asset.
WitnessUnmonitoredDropped ==
    \E q \in Runs :
        /\ rsp[q].pc = "upsertBalances"
        /\ Len(rsp[q].toUpsert) = 2
        /\ {a.unit : a \in rsp[q].accountAssets} = {"X", "Y"}
        /\ {<<WalletOf(n.snapshot_id), n.unit>> : n \in rsp[q].balanceRows}
               = {<<"w1", "lovelace">>, <<"w1", "X">>, <<"w2", "lovelace">>}

\* The sum of tradeValueUsd over the suggestions that sell (side "fromUnit")
\* or buy (side "toUnit") the unit u, and their number.
RECURSIVE SumTradesOf(_, _, _)
SumTradesOf(sugg, side, u) ==
    IF sugg = <<>> THEN Fin(0)
    ELSE Plus(IF Head(sugg)[side] = u THEN Head(sugg).tradeValueUsd ELSE Fin(0),
              SumTradesOf(Tail(sugg), side, u))

TradesOf(side, u) ==
    Cardinality({n \in DOMAIN crp.suggestions : crp.suggestions[n][side] = u})

InitiallyOver(u) == Less(Fin(0), deltaUsd(crp.params, u))
InitiallyUnder(u) == Less(deltaUsd(crp.params, u), Fin(0))

\* Overweight units are sold only, underweight units bought only.
OneRolePerUnit ==
    \A n \in DOMAIN crp.suggestions :
        LET s == crp.suggestions[n]
        IN  /\ s.fromUnit # s.toUnit
            /\ InitiallyOver(s.fromUnit)
            /\ InitiallyUnder(s.toUnit)

\* The state of the sweep of the returned plan after k iterations.
RECURSIVE Sweep(_, _)
Sweep(c, k) == IF k = 0 THEN c ELSE Sweep(Iterate(c), k - 1)

SweepAfter(k) == Sweep(Entered([CrpIdle EXCEPT !.pc = "call", !.params = crp.params]), k)

\* No delta has changed sign in the state c of the sweep: the overweight
\* entries are at or above zero and not above their initial delta, the
\* underweight ones at or below zero and not below theirs.
SignsKeptIn(c) ==
    /\ \A n \in DOMAIN c.overweight :
          /\ LessEq(Fin(0), c.overweight[n].deltaUsd)
          /\ LessEq(c.overweight[n].deltaUsd, deltaUsd(c.params, c.overweight[n].unit))
    /\ \A n \in DOMAIN c.underweight :
          /\ LessEq(c.underweight[n].deltaUsd, Fin(0))
          /\ LessEq(deltaUsd(c.params, c.underweight[n].unit), c.underweight[n].deltaUsd)

DeltasKeepSign ==
    /\ SweepAfter(crp.iters).overweight = crp.overweight
    /\ SweepAfter(crp.iters).underweight = crp.underweight
    /\ \A k \in 0..crp.iters : SignsKeptIn(SweepAfter(k))

\* The rounding of one tradeValue to 6 decimals adds at most half of 1e-6.
RoundingOf(n) == Fin((UnitsPerMicro \div 2) * n)

\* C26 as stated: in every plan a unit plays one role only, the total
\* tradeValue sold from a unit never exceeds its initial overweight delta,
\* the total bought into a unit never exceeds its initial deficit, and no
\* delta changes sign during the sweep.
UnitsKeepOneRole ==
    PlanReturned =>
        /\ OneRolePerUnit
        /\ DeltasKeepSign
        /\ \A u \in PlanUnitSet :
              /\ InitiallyOver(u) =>
                    LessEq(SumTradesOf(crp.suggestions, "fromUnit", u), deltaUsd(crp.params, u))
              /\ InitiallyUnder(u) =>
                    LessEq(SumTradesOf(crp.suggestions, "toUnit", u), Neg(deltaUsd(crp.params, u)))

\* C26 amended: in every plan a unit plays one role only and no delta
\* changes sign at any iteration of the sweep that produced it, so the
\* values moved out of or into a unit never exceed its initial delta or
\* deficit; the total tradeValue of a unit, each tradeValue being the moved
\* value rounded to 6 decimals, exceeds that bound by at most half of 1e-6
\* per suggestion naming the unit.
UnitsKeepOneRoleRounded ==
    PlanReturned =>
        /\ OneRolePerUnit
        /\ DeltasKeepSign
        /\ \A u \in PlanUnitSet :
              /\ InitiallyOver(u) =>
                    LessEq(SumTradesOf(crp.suggestions, "fromUnit", u),
                           Plus(deltaUsd(crp.params, u), RoundingOf(TradesOf("fromUnit", u))))
              /\ InitiallyUnder(u) =>
                    LessEq(SumTradesOf(crp.suggestions, "toUnit", u),
                           Plus(Neg(deltaUsd(crp.params, u)), RoundingOf(TradesOf("toUnit", u))))

\* A returned plan that sells one unit in two suggestions whose rounded
\* trade values sum to more than the unit was overweight by.
WitnessUnitOversold ==
    /\ PlanReturned
    /\ \E u \in PlanUnitSet :
        /\ TradesOf("fromUnit", u) = 2
        /\ Less(deltaUsd(crp.params, u), SumTradesOf(crp.suggestions, "fromUnit", u))

\* The alert rows of the pair that an invocation started before run p stored.
EarlierRows(p, w, sid) ==
    {e \in ExistingEvents(w, sid) : e.id[1] < p}

\* C29: once an alert event row exists for a (wallet, snapshot) pair, no
\* later invocation calls the notification sink for the pair, whether or not
\* the row says the delivery succeeded.
NoRetryForAlertedPair ==
    \A l \in sinkLog : EarlierRows(l.run, l.wallet_id, l.snapshot_id) = {}

(***************************************************************************)
(* Properties of the price resolver                                        *)
(***************************************************************************)
\* The distinct non-empty units of the request.
AskedUnits == {gtp.requested[n] : n \in DOMAIN gtp.requested} \ {""}

ResultsOf(u) == {n \in DOMAIN gtp.results : gtp.results[n].unit = u}

\* The active definition of unit u on the given source, if the lookup
\* returned one.
DefsOn(u, source) ==
    {d \in gtp.tokens : d.unit = u /\ d.is_active /\ d.pricing_source = source}

Priced(r) == r.priceUsd # NullPrice
Unpriced6(r) == r.priceUsd = NullPrice /\ r.error # ""

\* Every requested unit has exactly one result; with one source failed the
\* units of the other source and the manual ones keep their price and the
\* units of the failed source are null with an error.
OneResultPerUnit ==
    gtp.pc = "returned" =>
        /\ Len(gtp.results) = Cardinality(AskedUnits)
        /\ \A u \in AskedUnits : Cardinality(ResultsOf(u)) = 1
        /\ \A n \in DOMAIN gtp.results :
              LET r == gtp.results[n]
                  u == r.unit
              IN  /\ u \in AskedUnits
                  /\ u \notin {"lovelace", "BTC"} =>
                        /\ \A d \in DefsOn(u, "manual") : r.priceUsd = d.manual_price_usd
                        /\ \A d \in DefsOn(u, "coingecko") :
                              IF "coingecko" \in gtp.failed THEN Unpriced6(r)
                              ELSE d.coingecko_id \in DOMAIN gtp.cgRaw =>
                                      r.priceUsd = gtp.cgRaw[d.coingecko_id]
                        /\ \A d \in DefsOn(u, "kraken") :
                              IF "kraken" \in gtp.failed THEN Unpriced6(r)
                              ELSE \A k \in DOMAIN gtp.krakenRaw :
                                      Includes(k, d.kraken_pair_query) => Priced(r)

\* C21: getTokenUsdPrices never throws because a price source call failed
\* and returns exactly one result per distinct non-empty requested unit;
\* when one source fails, the units served by the other source and by manual
\* definitions still get their price, and each unit of the failed source
\* gets priceUsd = null with an error string.
SourceFailuresStayPerUnit ==
    /\ gtp.pc # "threw"
    /\ OneResultPerUnit

\* The ticker query failed: X, defined on it, is null with an error, while Y
\* has the aggregator's price and lovelace the base rate; the request named
\* X twice and an empty unit.
WitnessSourceFailed ==
    /\ gtp.pc = "returned"
    /\ gtp.requested = <<"X", "", "lovelace", "X", "Y">>
    /\ gtp.failed = {"kraken"}
    /\ \E n \in ResultsOf("X") : Unpriced6(gtp.results[n]) /\ gtp.results[n].source = "kraken"
    /\ \E n \in ResultsOf("Y") : Priced(gtp.results[n]) /\ gtp.results[n].source = "coingecko"
    /\ \E n \in ResultsOf("lovelace") : Priced(gtp.results[n])

\* C22: for lovelace and BTC the price comes from the ticker source first and
\* the aggregator is contacted only after the ticker call failed; whenever
\* this base-rate fetch succeeds, the results for lovelace and BTC carry a
\* non-null price whatever the token definition store returns for them,
\* a failed lookup included.
BaseUnitsAlwaysPriced ==
    /\ gtp.baseCalls \in {<<>>, <<"kraken">>, <<"kraken", "coingecko">>}
    /\ (Len(gtp.baseCalls) = 1 /\ gtp.pc \notin {"base", "baseFallback"}) =>
           gtp.krakenRates # NoRates
    /\ (gtp.pc = "returned" /\ gtp.krakenRates # NoRates) =>
           \A n \in DOMAIN gtp.results :
               gtp.results[n].unit \in {"lovelace", "BTC"} => Priced(gtp.results[n])

\* C23: when the ticker source answers a query for several distinct pairs
\* with exactly one series, that series is attributed to at most one
\* ticker-sourced unit: two units configured with different pairs never both
\* receive the price of the same single series.
SingleSeriesGoesToOneUnit ==
    (gtp.pc = "returned" /\ Cardinality(DOMAIN gtp.krakenRaw) = 1) =>
        \A m, n \in DOMAIN gtp.results :
            \A d \in DefsOn(gtp.results[m].unit, "kraken"), e \in DefsOn(gtp.results[n].unit, "kraken") :
                d.kraken_pair_query # e.kraken_pair_query =>
                    \A k \in DOMAIN gtp.krakenRaw :
                        ~(/\ gtp.results[m].priceUsd = gtp.krakenRaw[k]
                          /\ gtp.results[n].priceUsd = gtp.krakenRaw[k])

(***************************************************************************)
(* Properties of the targets handler                                       *)
(***************************************************************************)
\* The body as submitted: its sum, and whether it names a unit twice or
\* holds a negative percentage.
InvalidBody(targets) ==
    \/ SumIsOff(SumPct(targets))
    \/ \E m, n \in DOMAIN targets : m # n /\ targets[m].unit = targets[n].unit
    \/ \E n \in DOMAIN targets : targets[n].target_pct_points < 0

\* C24: a PUT of targets whose entries do not sum to 100 within 0.01, name
\* the same unit twice or hold a negative percentage is rejected before
\* anything is persisted: no step of the request changes the stored targets,
\* and the request does not succeed with the invalid entry dropped.
InvalidTargetsRejected ==
    [][\A p \in Runs :
          (InvalidBody(put[p].targets) /\ put'[p] # put[p]) =>
              (tokenTargets' = tokenTargets /\ put'[p].status # 200)]_vars

\* No PUT stands between its delete and its insert.
NoReplacementUnderWay == \A p \in Runs : put[p].pc # "insert"

\* C25: replacing a wallet's targets is all-or-nothing: after any PUT,
\* successful or failed, and any interleaving of two PUTs for the wallet,
\* the stored set is the one stored before or exactly one of the submitted
\* sets, so the stored targets have distinct units and sum to 100 within
\* 0.01.
TargetsReplacedWhole ==
    NoReplacementUnderWay =>
        /\ TargetRows("w1") \in
              {HalfTargets("w1")} \cup {PutRows("w1", put[p].targets) : p \in Runs}
        /\ Cardinality(TargetUnits("w1")) = Cardinality(TargetRows("w1"))
        /\ ~SumIsOff(SumOver(TargetUnits("w1"), targetsMap("w1")))

(***************************************************************************)
(* Properties of the orchestrator                                          *)
(***************************************************************************)
Calls == {n \in DOMAIN orch.trace : orch.trace[n].kind = "call"}

IsLast(n) == n = Len(orch.trace)

\* The call that follows event n, if any.
NextCall(n) ==
    IF \E m \in Calls : m > n THEN CHOOSE m \in Calls : m > n /\ \A k \in Calls : k > n => m <= k
    ELSE 0

\* Every attempt is within maxRetries; the first call asks for batch 0.
AttemptsBounded ==
    /\ \A n \in Calls : orch.trace[n].attempt \in 1..orch.config.maxRetries
    /\ \A n \in Calls : (\A m \in Calls : n <= m) =>
           orch.trace[n].batch = 0 /\ orch.trace[n].attempt = 1

\* What follows a call: after a success with more to do, the next batch;
\* after a success without, nothing; after a failure, the backoff and the
\* same batch again, or nothing when it was the last attempt.
CallIsFollowedUp(n) ==
    LET c == orch.trace[n]
        m == NextCall(n)
    IN  IF c.ok /\ c.hasMore
        THEN m # 0 => orch.trace[m].batch = c.batch + 1 /\ orch.trace[m].attempt = 1
        ELSE IF c.ok
        THEN IsLast(n) /\ orch.pc = "completed"
        ELSE IF c.attempt < orch.config.maxRetries
        THEN /\ ~IsLast(n)
             /\ orch.trace[n + 1] = DelayEvent(2 ^ (c.attempt - 1))
             /\ m # 0 => orch.trace[m].batch = c.batch /\ orch.trace[m].attempt = c.attempt + 1
        ELSE IsLast(n) /\ orch.pc = "aborted"

\* C27: run requests the batches in increasing order from 0 and never a
\* later batch before the current one returned success; each batch is
\* attempted at most maxRetries times, with a delay of 2^(attempt-1) seconds
\* after each failed attempt but the last; the run stops after the first
\* response with hasMore = false, and aborts without a further request when
\* a batch exhausts its attempts.
BatchesInOrderWithBackoff ==
    /\ AttemptsBounded
    /\ \A n \in Calls : CallIsFollowedUp(n)
    /\ orch.pc = "completed" => \E n \in Calls : IsLast(n) /\ orch.trace[n].ok
    /\ orch.pc = "attempt" =>
          /\ orch.attempt \in 1..orch.config.maxRetries
          /\ \A n \in Calls : orch.trace[n].batch <= orch.currentBatch

\* Batch 0 succeeded at its second attempt, one second after the first;
\* batch 1 failed three times, with one and two seconds between, and the
\* run aborted.
WitnessRetriedThenAborted ==
    /\ orch.pc = "aborted"
    /\ orch.config.maxRetries = 3
    /\ Len(orch.trace) = 9
    /\ orch.trace[1] = CallEvent(0, 1, FALSE, FALSE)
    /\ orch.trace[2] = DelayEvent(1)
    /\ orch.trace[3] = CallEvent(0, 2, TRUE, TRUE)
    /\ orch.trace[5] = CallEvent(1, 1, FALSE, FALSE)
    /\ orch.trace[6] = DelayEvent(1)
    /\ orch.trace[8] = DelayEvent(2)
    /\ orch.trace[9] = CallEvent(1, 3, FALSE, FALSE)

(***************************************************************************)
(* Properties of the manual snapshot handler                               *)
(***************************************************************************)
\* The wallet has a snapshot taken less than ten minutes before `now`.
RecentSnapshot(w, now) ==
    \E s \in walletSnapshots : s.wallet_id = w /\ now - s.snapshot_at < 10

\* The step by which request q is taken up.
Handled(q) == manual[q].pc = "call" /\ manual'[q].pc # "call"

\* The request called the pipeline.
RanPipeline(q) ==
    \/ manual[q].pc = "pipeline" /\ rsp[RunOf(q)].pc # "idle"
    \/ manual[q].status = 200

NothingRun == rsp' = rsp /\ storeVars' = storeVars

\* C28 as stated: a manual-snapshot request whose wallet has a snapshot
\* less than 10 minutes old is answered with 429 and does not run the
\* pipeline; hence two sequential requests for one wallet that ran the
\* pipeline are at least 10 minutes apart.
ManualRunsTenMinutesApart ==
    /\ [][\A q \in Runs :
            (Handled(q) /\ RecentSnapshot(manual[q].walletId, manual'[q].now)) =>
                (manual'[q].pc = "returned" /\ manual'[q].status = 429 /\ NothingRun)]_vars
    /\ [](\A q1, q2 \in Runs :
            (q1 < q2 /\ manual[q1].walletId = manual[q2].walletId
                /\ RanPipeline(q1) /\ RanPipeline(q2)) =>
                manual[q2].now - manual[q1].now >= 10)

\* C28 amended: the request is answered with 429, or with 500 when one of
\* its store reads failed, and in neither case runs the pipeline; two
\* sequential requests for one wallet that ran the pipeline are at least 10
\* minutes apart when the earlier one stored a snapshot (processed >= 1).
ManualRunsApartAfterSnapshot ==
    /\ [][\A q \in Runs :
            (Handled(q) /\ RecentSnapshot(manual[q].walletId, manual'[q].now)) =>
                (manual'[q].pc = "returned" /\ manual'[q].status \in {429, 500} /\ NothingRun)]_vars
    /\ [](\A q1, q2 \in Runs :
            (q1 < q2 /\ manual[q1].walletId = manual[q2].walletId
                /\ RanPipeline(q1) /\ RanPipeline(q2) /\ manual[q1].processed >= 1) =>
                manual[q2].now - manual[q1].now >= 10)

\* The first request stored a snapshot; the second, nine minutes later, was
\* answered with 429.
WitnessCooldownApplied ==
    /\ manual[1].status = 200
    /\ manual[1].processed = 1
    /\ manual[2].status = 429
    /\ manual[2].now - manual[1].now = 9
    /\ manual[2].walletId = manual[1].walletId

(***************************************************************************)
(* Properties of the stored prices                                         *)
(***************************************************************************)
\* The rows of table for the bucket and unit of row r.
SameBucketAndUnit(table, r) ==
    {n \in table : n.snapshot_bucket = r.snapshot_bucket /\ n.unit = r.unit}

\* C30: a re-run of the pipeline in the same hour bucket never replaces a
\* non-null price_usd stored for a (bucket, unit) by null: once a unit has a
\* resolved price in a bucket, every later state of the bucket holds a
\* resolved price for it.
ResolvedPricesAreKept ==
    [][\A r \in priceSnapshots :
          r.price_usd # NullPrice =>
              \A n \in SameBucketAndUnit(priceSnapshots', r) : n.price_usd # NullPrice]_vars

=============================================================================
